---- MODULE Spec2Model ----
(***************************************************************************)
(* A model of the mincaml type checker (src/src/type_check.rs): the type   *)
(* representation, the substitution environment, deref_ty, occurs_check,   *)
(* unify, norm_ty, type_check and type_check_pgm.                          *)
(*                                                                         *)
(* Two specifications are defined over the same variables:                 *)
(*   Spec    a caller issues an arbitrary sequence of unify calls on one   *)
(*           substitution environment (the way type_check drives unify);   *)
(*   SpecTc  type_check_pgm runs on one program drawn from a bounded set   *)
(*           of ASTs: inference, unification of the top-level type with    *)
(*           Unit, normalisation of the type environment.                  *)
(***************************************************************************)
EXTENDS Integers, Sequences, FiniteSets, TLC

(***************************************************************************)
(* Bounds of the model.                                                    *)
(***************************************************************************)
\* Number of inference variables (TyVar) the unify calls of Spec range over.
NumTyVars == 2

\* Largest number of arguments of an App / LetRec / Tuple in the programs
\* of SpecTc.
MaxArgs == 2

TyVars == 0 .. (NumTyVars - 1)

(***************************************************************************)
(* enum Type.  Every type is a record of one shape, so that any two types  *)
(* can be compared: tag is the variant, var the TyVar of Type::Var, args   *)
(* the components of Fun / Tuple / Array, ret the return type of Fun (a    *)
(* sequence of length one, empty for the other variants).                  *)
(***************************************************************************)
TUnit == [tag |-> "Unit", var |-> 0, args |-> <<>>, ret |-> <<>>]

TBool == [tag |-> "Bool", var |-> 0, args |-> <<>>, ret |-> <<>>]

TInt == [tag |-> "Int", var |-> 0, args |-> <<>>, ret |-> <<>>]

TFloat == [tag |-> "Float", var |-> 0, args |-> <<>>, ret |-> <<>>]

TFun(args, ret) == [tag |-> "Fun", var |-> 0, args |-> args, ret |-> <<ret>>]

TTuple(args) == [tag |-> "Tuple", var |-> 0, args |-> args, ret |-> <<>>]

TArray(ty) == [tag |-> "Array", var |-> 0, args |-> <<ty>>, ret |-> <<>>]

TVar(tyvar) == [tag |-> "Var", var |-> tyvar, args |-> <<>>, ret |-> <<>>]

\* The four leaf variants Unit | Bool | Int | Float.
IsBase(ty) == ty.tag \in {"Unit", "Bool", "Int", "Float"}

(***************************************************************************)
(* enum TypeErr, and NoErr for Ok(()).                                     *)
(***************************************************************************)
NoErr == [kind |-> "none", t1 |-> TUnit, t2 |-> TUnit, var |-> ""]

UnifyError(t1, t2) == [kind |-> "UnifyError", t1 |-> t1, t2 |-> t2, var |-> ""]

InfiniteType(t1, t2) == [kind |-> "InfiniteType", t1 |-> t1, t2 |-> t2, var |-> ""]

UnboundVar(name) == [kind |-> "UnboundVar", t1 |-> TUnit, t2 |-> TUnit, var |-> name]

(***************************************************************************)
(* type SubstEnv = FxHashMap<TyVar, Type>: a function from the bound       *)
(* type variables to their types.                                          *)
(***************************************************************************)
EmptySubst == [v \in {} |-> TUnit]

\* HashMap::insert: adds the binding, replacing one the key already has.
SubstInsert(subst, tyvar, ty) ==
  [x \in (DOMAIN subst) \cup {tyvar} |-> IF x = tyvar THEN ty ELSE subst[x]]

(***************************************************************************)
(* deref_ty: follow variable bindings to the first non-variable type or    *)
(* to an unbound variable.  Shallow: components are not touched.           *)
(***************************************************************************)
RECURSIVE deref_ty(_, _)
deref_ty(subst, ty) ==
  IF ty.tag = "Var" /\ ty.var \in DOMAIN subst
  THEN deref_ty(subst, subst[ty.var])
  ELSE ty

(***************************************************************************)
(* occurs_check: does var occur in ty, dereferencing on the way down.      *)
(***************************************************************************)
RECURSIVE occurs_check(_, _, _)
occurs_check(subst, var, ty) ==
  LET d == deref_ty(subst, ty) IN
  CASE IsBase(d) -> FALSE
    [] d.tag = "Fun" ->
         \/ \E i \in 1 .. Len(d.args) : occurs_check(subst, var, d.args[i])
         \/ occurs_check(subst, var, d.ret[1])
    [] d.tag = "Tuple" -> \E i \in 1 .. Len(d.args) : occurs_check(subst, var, d.args[i])
    [] d.tag = "Array" -> occurs_check(subst, var, d.args[1])
    [] d.tag = "Var" -> var = d.var

(***************************************************************************)
(* unify.  The result is the substitution after the call and the error     *)
(* (NoErr for Ok): the code mutates subst_env in place and does not roll   *)
(* back on failure.                                                        *)
(***************************************************************************)
UnifyOk(subst) == [subst |-> subst, err |-> NoErr]

UnifyErr(subst, err) == [subst |-> subst, err |-> err]

\* A plausible slip: the arity test inverted.
arity_mismatch_inverted(args1, args2) == Len(args1) = Len(args2)

\* `if args1.len() != args2.len()` of the Fun and Tuple arms.
arity_mismatch(args1, args2) == Len(args1) # Len(args2)

\* A plausible slip: the binding inserted without the occurs check.
bind_var_unchecked(subst, var, ty, ty1, ty2) == UnifyOk(SubstInsert(subst, var, ty))

\* The arm (Type::Var(var), ty) | (ty, Type::Var(var)): occurs check, then
\* insertion; ty1 and ty2 are the dereferenced operands the error reports.
bind_var(subst, var, ty, ty1, ty2) ==
  IF occurs_check(subst, var, ty)
  THEN UnifyErr(subst, InfiniteType(ty1, ty2))
  ELSE UnifyOk(SubstInsert(subst, var, ty))

\* A plausible slip: the catch-all arm accepting instead of rejecting.
unify_mismatch_accepts(subst, ty1, ty2) == UnifyOk(subst)

\* The catch-all arm `_ => Err(UnifyError(ty1, ty2))`.
unify_mismatch(subst, ty1, ty2) == UnifyErr(subst, UnifyError(ty1, ty2))

RECURSIVE unify(_, _, _)
RECURSIVE unify_args(_, _, _, _)

\* A plausible slip: the loop restoring the substitution it was entered
\* with when a component fails.
unify_args_rolls_back(subst, args1, args2, i) ==
  IF i > Len(args1) \/ i > Len(args2)
  THEN UnifyOk(subst)
  ELSE LET r == unify(subst, args1[i], args2[i]) IN
       IF r.err # NoErr THEN UnifyErr(subst, r.err)
       ELSE LET rest == unify_args(r.subst, args1, args2, i + 1) IN
            IF rest.err # NoErr THEN UnifyErr(subst, rest.err) ELSE rest

\* `for (arg1, arg2) in args1.iter().zip(args2.iter()) { unify(..)?; }`
\* from position i on: the first failure is returned, with the bindings
\* made so far.  zip stops at the shorter sequence.
unify_args(subst, args1, args2, i) ==
  IF i > Len(args1) \/ i > Len(args2)
  THEN UnifyOk(subst)
  ELSE LET r == unify(subst, args1[i], args2[i]) IN
       IF r.err # NoErr THEN r ELSE unify_args(r.subst, args1, args2, i + 1)

\* A plausible slip: the Fun arm unifying the arguments and leaving the
\* return types alone.
unify_match_skips_ret(subst, ty1, ty2) ==
  IF IsBase(ty1) /\ IsBase(ty2) /\ ty1.tag = ty2.tag THEN UnifyOk(subst)
  ELSE IF ty1.tag = "Fun" /\ ty2.tag = "Fun" THEN
    IF arity_mismatch(ty1.args, ty2.args)
    THEN UnifyErr(subst, UnifyError(ty1, ty2))
    ELSE unify_args(subst, ty1.args, ty2.args, 1)
  ELSE IF ty1.tag = "Var" /\ ty2.tag = "Var" /\ ty1.var = ty2.var THEN UnifyOk(subst)
  ELSE IF ty1.tag = "Var" THEN bind_var(subst, ty1.var, ty2, ty1, ty2)
  ELSE IF ty2.tag = "Var" THEN bind_var(subst, ty2.var, ty1, ty1, ty2)
  ELSE IF ty1.tag = "Tuple" /\ ty2.tag = "Tuple" THEN
    IF arity_mismatch(ty1.args, ty2.args)
    THEN UnifyErr(subst, UnifyError(ty1, ty2))
    ELSE unify_args(subst, ty1.args, ty2.args, 1)
  ELSE IF ty1.tag = "Array" /\ ty2.tag = "Array" THEN unify(subst, ty1.args[1], ty2.args[1])
  ELSE unify_mismatch(subst, ty1, ty2)

\* The match of unify on the two dereferenced operands; the arms are tried
\* in the order of the source.
unify_match(subst, ty1, ty2) ==
  IF IsBase(ty1) /\ IsBase(ty2) /\ ty1.tag = ty2.tag THEN UnifyOk(subst)
  ELSE IF ty1.tag = "Fun" /\ ty2.tag = "Fun" THEN
    IF arity_mismatch(ty1.args, ty2.args)
    THEN UnifyErr(subst, UnifyError(ty1, ty2))
    ELSE LET r == unify_args(subst, ty1.args, ty2.args, 1) IN
         IF r.err # NoErr THEN r ELSE unify(r.subst, ty1.ret[1], ty2.ret[1])
  ELSE IF ty1.tag = "Var" /\ ty2.tag = "Var" /\ ty1.var = ty2.var THEN UnifyOk(subst)
  ELSE IF ty1.tag = "Var" THEN bind_var(subst, ty1.var, ty2, ty1, ty2)
  ELSE IF ty2.tag = "Var" THEN bind_var(subst, ty2.var, ty1, ty1, ty2)
  ELSE IF ty1.tag = "Tuple" /\ ty2.tag = "Tuple" THEN
    IF arity_mismatch(ty1.args, ty2.args)
    THEN UnifyErr(subst, UnifyError(ty1, ty2))
    ELSE unify_args(subst, ty1.args, ty2.args, 1)
  ELSE IF ty1.tag = "Array" /\ ty2.tag = "Array" THEN unify(subst, ty1.args[1], ty2.args[1])
  ELSE unify_mismatch(subst, ty1, ty2)

\* A plausible slip: the operands matched without dereferencing them.
unify_no_deref(subst, a, b) == unify_match(subst, a, b)

unify(subst, a, b) == unify_match(subst, deref_ty(subst, a), deref_ty(subst, b))

(***************************************************************************)
(* norm_ty: replace every type variable, at any depth, by what it          *)
(* dereferences to.  On an unbound variable deref_ty returns the variable  *)
(* itself and the Var arm calls norm_ty on it again, with the same         *)
(* arguments, without end: NeverReturns stands for the result of that      *)
(* call, and a compound type holding it is never built either.             *)
(***************************************************************************)
NeverReturns == [tag |-> "NeverReturns", var |-> 0, args |-> <<>>, ret |-> <<>>]

\* A plausible slip: the return type of a Fun left as it is.
RECURSIVE norm_ty_skips_ret(_, _)
norm_ty_skips_ret(substs, ty) ==
  IF IsBase(ty) THEN ty
  ELSE IF ty.tag = "Fun" THEN
    [ty EXCEPT !.args = [i \in 1 .. Len(ty.args) |-> norm_ty_skips_ret(substs, ty.args[i])]]
  ELSE IF ty.tag \in {"Tuple", "Array"} THEN
    [ty EXCEPT !.args = [i \in 1 .. Len(ty.args) |-> norm_ty_skips_ret(substs, ty.args[i])]]
  ELSE IF deref_ty(substs, ty) = ty THEN NeverReturns
  ELSE norm_ty_skips_ret(substs, deref_ty(substs, ty))

RECURSIVE norm_ty(_, _)
norm_ty(substs, ty) ==
  IF IsBase(ty) THEN ty
  ELSE IF ty.tag = "Fun" THEN
    [ty EXCEPT !.args = [i \in 1 .. Len(ty.args) |-> norm_ty(substs, ty.args[i])],
               !.ret = <<norm_ty(substs, ty.ret[1])>>]
  ELSE IF ty.tag \in {"Tuple", "Array"} THEN
    [ty EXCEPT !.args = [i \in 1 .. Len(ty.args) |-> norm_ty(substs, ty.args[i])]]
  ELSE IF deref_ty(substs, ty) = ty THEN NeverReturns
  ELSE norm_ty(substs, deref_ty(substs, ty))

\* Whether a norm_ty call with this result returned.
RECURSIVE Returned(_)
Returned(ty) ==
  /\ ty.tag # "NeverReturns"
  /\ \A i \in 1 .. Len(ty.args) : Returned(ty.args[i])
  /\ \A i \in 1 .. Len(ty.ret) : Returned(ty.ret[i])

(***************************************************************************)
(* Var (crate::var, not among the sources): a display name and the unique  *)
(* identity of the binder.  Built-ins and unresolved references carry      *)
(* identity 0; every binder of a program carries its own.                  *)
(***************************************************************************)
MkVar(name, uniq) == [name |-> name, uniq |-> uniq]

VarBuiltin(name) == MkVar(name, 0)

NoVar == MkVar("", 0)

(***************************************************************************)
(* TypeEnv = FxHashMap<Var, Type>: the entries in insertion order.         *)
(***************************************************************************)
TypeEnvInsert(env, var, ty) ==
  IF \E i \in 1 .. Len(env) : env[i].var = var
  THEN [i \in 1 .. Len(env) |-> IF env[i].var = var THEN [var |-> var, ty |-> ty] ELSE env[i]]
  ELSE Append(env, [var |-> var, ty |-> ty])

\* mk_type_env: the built-ins with their fixed types.
mk_type_env ==
  LET float_float == TFun(<<TFloat>>, TFloat)
      float_int == TFun(<<TFloat>>, TInt)
  IN << [var |-> VarBuiltin("print_int"), ty |-> TFun(<<TInt>>, TUnit)],
        [var |-> VarBuiltin("print_newline"), ty |-> TFun(<<TUnit>>, TUnit)],
        [var |-> VarBuiltin("float_of_int"), ty |-> TFun(<<TInt>>, TFloat)],
        [var |-> VarBuiltin("int_of_float"), ty |-> float_int],
        [var |-> VarBuiltin("truncate"), ty |-> float_int],
        [var |-> VarBuiltin("abs_float"), ty |-> float_float],
        [var |-> VarBuiltin("sqrt"), ty |-> float_float],
        [var |-> VarBuiltin("sin"), ty |-> float_float],
        [var |-> VarBuiltin("cos"), ty |-> float_float] >>

(***************************************************************************)
(* Scope = Locals<Rc<str>, Binder> (crate::locals, not among the           *)
(* sources): a stack of frames mapping display names to binders; a lookup  *)
(* finds the innermost binding.  A frame is the sequence of its bindings,  *)
(* the latest for a name being the one in force.                           *)
(***************************************************************************)
MkBinder(binder, ty) == [name |-> binder.name, binder |-> binder, ty |-> ty]

\* Locals::new(global_scope)
Locals_new(global_scope) == <<global_scope>>

new_scope(sc) == Append(sc, <<>>)

pop_scope(sc) == SubSeq(sc, 1, Len(sc) - 1)

scope_add(sc, binder, ty) == [sc EXCEPT ![Len(sc)] = Append(@, MkBinder(binder, ty))]

\* The binding of name in a frame, searched from position i downwards:
\* a sequence holding it, or the empty sequence.
RECURSIVE frame_get(_, _, _)
frame_get(frame, name, i) ==
  IF i = 0 THEN <<>>
  ELSE IF frame[i].name = name THEN <<frame[i]>>
  ELSE frame_get(frame, name, i - 1)

\* scope.get(name), searched from frame i downwards.
RECURSIVE scope_get_from(_, _, _)
scope_get_from(sc, name, i) ==
  IF i = 0 THEN <<>>
  ELSE LET hit == frame_get(sc[i], name, Len(sc[i])) IN
       IF hit # <<>> THEN hit ELSE scope_get_from(sc, name, i - 1)

scope_get(sc, name) == scope_get_from(sc, name, Len(sc))

(***************************************************************************)
(* enum Expr (crate::parser): tag is the variant, bndr the Var of          *)
(* Expr::Var or the binder of Let / LetRec, bndrs the argument binders of  *)
(* LetRec or the binders of LetTuple, args the sub-expressions in the      *)
(* order of the variant's fields.  Literal values play no part.            *)
(***************************************************************************)
MkExpr(tag, bndr, bndrs, args) == [tag |-> tag, bndr |-> bndr, bndrs |-> bndrs, args |-> args]

EUnit == MkExpr("Unit", NoVar, <<>>, <<>>)

EBool == MkExpr("Bool", NoVar, <<>>, <<>>)

EInt == MkExpr("Int", NoVar, <<>>, <<>>)

EFloat == MkExpr("Float", NoVar, <<>>, <<>>)

EVar(name) == MkExpr("Var", MkVar(name, 0), <<>>, <<>>)

EOp1(tag, e) == MkExpr(tag, NoVar, <<>>, <<e>>)

EOp2(tag, e1, e2) == MkExpr(tag, NoVar, <<>>, <<e1, e2>>)

EOp3(tag, e1, e2, e3) == MkExpr(tag, NoVar, <<>>, <<e1, e2, e3>>)

ELet(bndr, rhs, body) == MkExpr("Let", bndr, <<>>, <<rhs, body>>)

ELetRec(bndr, args, rhs, body) == MkExpr("LetRec", bndr, args, <<rhs, body>>)

\* App { fun, args }: the function first, then the arguments.
EApp(fun, args) == MkExpr("App", NoVar, <<>>, <<fun>> \o args)

ETuple(args) == MkExpr("Tuple", NoVar, <<>>, args)

ELetTuple(bndrs, rhs, body) == MkExpr("LetTuple", NoVar, bndrs, <<rhs, body>>)

(***************************************************************************)
(* type_check.  The state threaded through the calls: subst (subst_env),   *)
(* ty_env, scope, next (the static NEXT_TYVAR), refs (the binders the      *)
(* Expr::Var nodes met so far were rewritten to, in order), err and ty     *)
(* (the Result of the call that just returned), tys (the types a loop      *)
(* over sub-expressions collected).                                        *)
(***************************************************************************)
TcFailed(st) == st.err # NoErr

TcOk(st, ty) == [st EXCEPT !.ty = ty]

\* The `?` of `let x = <call>?; <rest>`: an Err is returned at once, the
\* rest runs on the state the call left.
Try(st, Rest(_)) == IF TcFailed(st) THEN st ELSE Rest(st)

\* The effect of a unify call on the threaded state.
TcAfterUnify(st, r) == [st EXCEPT !.subst = r.subst, !.err = r.err]

\* unify(subst_env, a, b)
TcUnify(st, a, b) == TcAfterUnify(st, unify(st.subst, a, b))

\* A plausible slip: the pop_scope call left out.
TcPopScope_forgotten(st) == st

\* scope.pop_scope() after a call that is not followed by `?`.
TcPopScope(st) == [st EXCEPT !.scope = pop_scope(@)]

\* n calls of fresh_tyvar: the variables handed out.
FreshTyVars(st, n) == [i \in 1 .. n |-> TVar(st.next + i - 1)]

\* scope.add for each (binder, type) pair of a zip, from position i on.
RECURSIVE scope_add_all(_, _, _, _)
scope_add_all(sc, bndrs, tys, i) ==
  IF i > Len(bndrs) \/ i > Len(tys) THEN sc
  ELSE scope_add_all(scope_add(sc, bndrs[i], tys[i]), bndrs, tys, i + 1)

\* ty_env.insert for each binder of LetTuple, from position i on.
RECURSIVE ty_env_insert_all(_, _, _, _)
ty_env_insert_all(env, bndrs, tys, i) ==
  IF i > Len(bndrs) THEN env
  ELSE ty_env_insert_all(TypeEnvInsert(env, bndrs[i], tys[i]), bndrs, tys, i + 1)

RECURSIVE type_check(_, _)
RECURSIVE type_check_args(_, _, _, _)

\* `for arg in args { arg_tys.push(type_check(..)?); }` from position i on.
type_check_args(st, args, i, arg_tys) ==
  IF i > Len(args) THEN [st EXCEPT !.tys = arg_tys]
  ELSE Try(type_check(st, args[i]),
           LAMBDA s1 : type_check_args(s1, args, i + 1, Append(arg_tys, s1.ty)))

\* Expr::Not, Expr::Neg, Expr::FNeg: the operand unified with ty.
type_check_unary(st, e, ty) ==
  Try(type_check(st, e.args[1]), LAMBDA s1 :
  Try(TcUnify(s1, ty, s1.ty), LAMBDA s2 :
  TcOk(s2, ty)))

\* Expr::Add | Sub and Expr::FAdd | FSub | FMul | FDiv: both operands
\* checked, then each unified with ty.
type_check_binary(st, e, ty) ==
  Try(type_check(st, e.args[1]), LAMBDA s1 :
  Try(type_check(s1, e.args[2]), LAMBDA s2 :
  Try(TcUnify(s2, ty, s1.ty), LAMBDA s3 :
  Try(TcUnify(s3, ty, s2.ty), LAMBDA s4 :
  TcOk(s4, ty)))))

\* Expr::Eq | Expr::Le
type_check_cmp(st, e) ==
  Try(type_check(st, e.args[1]), LAMBDA s1 :
  Try(type_check(s1, e.args[2]), LAMBDA s2 :
  Try(TcUnify(s2, s1.ty, s2.ty), LAMBDA s3 :
  TcOk(s3, TBool))))

\* Expr::If
type_check_if(st, e) ==
  Try(type_check(st, e.args[1]), LAMBDA s1 :
  Try(type_check(s1, e.args[2]), LAMBDA s2 :
  Try(type_check(s2, e.args[3]), LAMBDA s3 :
  Try(TcUnify(s3, s1.ty, TBool), LAMBDA s4 :
  Try(TcUnify(s4, s2.ty, s3.ty), LAMBDA s5 :
  TcOk(s5, s2.ty))))))

\* Expr::Let: the binder is in scope in body only; the scope pushed for
\* body is popped whether body fails or not.
type_check_let(st, e) ==
  LET bndr_ty == TVar(st.next) IN
  Try(type_check([st EXCEPT !.next = @ + 1,
                            !.ty_env = TypeEnvInsert(@, e.bndr, bndr_ty)],
                 e.args[1]), LAMBDA s1 :
  Try(TcUnify(s1, bndr_ty, s1.ty), LAMBDA s2 :
  TcPopScope(type_check([s2 EXCEPT !.scope = scope_add(new_scope(@), e.bndr, bndr_ty)],
                        e.args[2]))))

\* A variant of the Expr::Var arm that gives an identifier found in no
\* scope frame a fresh type variable instead of failing.
type_check_var_lenient(st, e) ==
  LET hit == scope_get(st.scope, e.bndr.name) IN
  IF hit # <<>>
  THEN [st EXCEPT !.refs = Append(@, hit[1].binder), !.ty = hit[1].ty]
  ELSE [st EXCEPT !.next = @ + 1, !.ty = TVar(st.next)]

\* Expr::Var: the node is rewritten to the binder found, whose type is
\* returned.
type_check_var(st, e) ==
  LET hit == scope_get(st.scope, e.bndr.name) IN
  IF hit # <<>>
  THEN [st EXCEPT !.refs = Append(@, hit[1].binder), !.ty = hit[1].ty]
  ELSE [st EXCEPT !.err = UnboundVar(e.bndr.name)]

\* A plausible slip: the frame of the arguments popped after body instead
\* of before it.
type_check_letrec_args_in_body(st, e) ==
  LET n == Len(e.bndrs)
      arg_tys == FreshTyVars(st, n)
      rhs_ty == TVar(st.next + n)
      fun_ty == TFun(arg_tys, rhs_ty)
  IN
  Try(type_check([st EXCEPT !.next = @ + n + 1,
                            !.ty_env = TypeEnvInsert(@, e.bndr, fun_ty),
                            !.scope = scope_add_all(
                                        new_scope(scope_add(new_scope(@), e.bndr, fun_ty)),
                                        e.bndrs, arg_tys, 1)],
                 e.args[1]), LAMBDA s1 :
  Try(TcUnify(s1, rhs_ty, s1.ty), LAMBDA s2 :
  TcPopScope(TcPopScope(type_check(s2, e.args[2])))))

\* Expr::LetRec: the function is in scope in rhs and body, the arguments
\* (in a frame of their own) in rhs only.
type_check_letrec(st, e) ==
  LET n == Len(e.bndrs)
      arg_tys == FreshTyVars(st, n)
      rhs_ty == TVar(st.next + n)
      fun_ty == TFun(arg_tys, rhs_ty)
  IN
  Try(type_check([st EXCEPT !.next = @ + n + 1,
                            !.ty_env = TypeEnvInsert(@, e.bndr, fun_ty),
                            !.scope = scope_add_all(
                                        new_scope(scope_add(new_scope(@), e.bndr, fun_ty)),
                                        e.bndrs, arg_tys, 1)],
                 e.args[1]), LAMBDA s1 :
  Try(TcUnify(s1, rhs_ty, s1.ty), LAMBDA s2 :
  TcPopScope(type_check(TcPopScope(s2), e.args[2]))))

\* Expr::App: the result variable is drawn first, then the arguments are
\* checked, then the function.
type_check_app(st, e) ==
  LET ret_ty == TVar(st.next) IN
  Try(type_check_args([st EXCEPT !.next = @ + 1],
                      SubSeq(e.args, 2, Len(e.args)), 1, <<>>), LAMBDA s1 :
  Try(type_check(s1, e.args[1]), LAMBDA s2 :
  Try(TcUnify(s2, TFun(s1.tys, ret_ty), s2.ty), LAMBDA s3 :
  TcOk(s3, ret_ty))))

\* Expr::Tuple
type_check_tuple(st, e) ==
  Try(type_check_args(st, e.args, 1, <<>>), LAMBDA s1 :
  TcOk(s1, TTuple(s1.tys)))

\* Expr::LetTuple
type_check_lettuple(st, e) ==
  LET n == Len(e.bndrs)
      arg_tys == FreshTyVars(st, n)
  IN
  Try(type_check([st EXCEPT !.next = @ + n,
                            !.ty_env = ty_env_insert_all(@, e.bndrs, arg_tys, 1)],
                 e.args[1]), LAMBDA s1 :
  Try(TcUnify(s1, s1.ty, TTuple(arg_tys)), LAMBDA s2 :
  TcPopScope(type_check([s2 EXCEPT !.scope = scope_add_all(new_scope(@), e.bndrs,
                                                           arg_tys, 1)],
                        e.args[2]))))

\* Expr::Array
type_check_array(st, e) ==
  Try(type_check(st, e.args[1]), LAMBDA s1 :
  Try(TcUnify(s1, s1.ty, TInt), LAMBDA s2 :
  Try(type_check(s2, e.args[2]), LAMBDA s3 :
  TcOk(s3, TArray(s3.ty)))))

\* Expr::Get
type_check_get(st, e) ==
  LET array_elem_ty == TVar(st.next) IN
  Try(type_check([st EXCEPT !.next = @ + 1], e.args[1]), LAMBDA s1 :
  Try(TcUnify(s1, s1.ty, TArray(array_elem_ty)), LAMBDA s2 :
  Try(type_check(s2, e.args[2]), LAMBDA s3 :
  Try(TcUnify(s3, s3.ty, TInt), LAMBDA s4 :
  TcOk(s4, array_elem_ty)))))

\* Expr::Put
type_check_put(st, e) ==
  LET array_elem_ty == TVar(st.next) IN
  Try(type_check([st EXCEPT !.next = @ + 1], e.args[1]), LAMBDA s1 :
  Try(TcUnify(s1, s1.ty, TArray(array_elem_ty)), LAMBDA s2 :
  Try(type_check(s2, e.args[2]), LAMBDA s3 :
  Try(TcUnify(s3, s3.ty, TInt), LAMBDA s4 :
  Try(type_check(s4, e.args[3]), LAMBDA s5 :
  Try(TcUnify(s5, s5.ty, array_elem_ty), LAMBDA s6 :
  TcOk(s6, TUnit)))))))

type_check(st, e) ==
  CASE e.tag = "Unit" -> TcOk(st, TUnit)
    [] e.tag = "Bool" -> TcOk(st, TBool)
    [] e.tag = "Int" -> TcOk(st, TInt)
    [] e.tag = "Float" -> TcOk(st, TFloat)
    [] e.tag = "Not" -> type_check_unary(st, e, TBool)
    [] e.tag = "Neg" -> type_check_unary(st, e, TInt)
    [] e.tag \in {"Add", "Sub"} -> type_check_binary(st, e, TInt)
    [] e.tag = "FNeg" -> type_check_unary(st, e, TFloat)
    [] e.tag \in {"FAdd", "FSub", "FMul", "FDiv"} -> type_check_binary(st, e, TFloat)
    [] e.tag \in {"Eq", "Le"} -> type_check_cmp(st, e)
    [] e.tag = "If" -> type_check_if(st, e)
    [] e.tag = "Let" -> type_check_let(st, e)
    [] e.tag = "Var" -> type_check_var(st, e)
    [] e.tag = "LetRec" -> type_check_letrec(st, e)
    [] e.tag = "App" -> type_check_app(st, e)
    [] e.tag = "Tuple" -> type_check_tuple(st, e)
    [] e.tag = "LetTuple" -> type_check_lettuple(st, e)
    [] e.tag = "Array" -> type_check_array(st, e)
    [] e.tag = "Get" -> type_check_get(st, e)
    [] e.tag = "Put" -> type_check_put(st, e)

(***************************************************************************)
(* type_check_pgm, in its three parts.                                     *)
(***************************************************************************)
\* global_scope: one binder per entry of the initial ty_env.
global_scope(env) == [i \in 1 .. Len(env) |-> MkBinder(env[i].var, env[i].ty)]

\* The state type_check is first called in; next is NEXT_TYVAR's value.
TcStart(next) ==
  [subst |-> EmptySubst, ty_env |-> mk_type_env,
   scope |-> Locals_new(global_scope(mk_type_env)),
   next |-> next, refs |-> <<>>, err |-> NoErr, ty |-> TUnit, tys |-> <<>>]

\* A plausible slip: the operands of the final unification swapped.
unify_top_swapped(subst, ty) == unify(subst, ty, TUnit)

\* unify(&mut subst_env, &Type::Unit, &ty)?
unify_top(subst, ty) == unify(subst, TUnit, ty)

\* `for ty in ty_env.values_mut() { take(ty, |ty| norm_ty(&subst_env, ty)); }`
norm_ty_env(subst, env) ==
  [i \in 1 .. Len(env) |-> [var |-> env[i].var, ty |-> norm_ty(subst, env[i].ty)]]

\* Whether every norm_ty call of the loop returns.
norm_ty_env_returns(subst, env) ==
  \A i \in 1 .. Len(env) : Returned(norm_ty(subst, env[i].ty))

(***************************************************************************)
(* The types the unify calls of Spec are made on: the leaves, and the      *)
(* compound types over leaf components.  Deeper types arise through the    *)
(* substitution (a component variable bound to a compound type).           *)
(***************************************************************************)
BaseTys == {TUnit, TBool, TInt, TFloat}

VarTys == {TVar(v) : v \in TyVars}

CompTys == {TInt} \cup VarTys

FunCompTys == {TInt, TVar(0)}

Types ==
  BaseTys \cup VarTys
    \cup {TArray(c) : c \in CompTys}
    \cup {TTuple(<<c, d>>) : c \in FunCompTys, d \in CompTys}
    \cup {TTuple(<<TInt>>), TFun(<<>>, TInt)}
    \cup {TFun(<<c>>, d) : c \in FunCompTys, d \in FunCompTys}

(***************************************************************************)
(* The programs type_check_pgm is run on in SpecTc.  Binders: x (Let),     *)
(* f (LetRec), the arguments of f (the first names of ArgNames; the        *)
(* second one has the display name of the function), p and q (LetTuple).   *)
(* Every binder has its own identity.                                      *)
(***************************************************************************)
BndrX == MkVar("x", 1)

BndrF == MkVar("f", 2)

BndrP == MkVar("p", 3)

BndrQ == MkVar("q", 4)

ArgNames == <<"a", "f", "x", "b">>

\* The first n argument binders.
ArgBndrs(n) == [i \in 1 .. n |-> MkVar(ArgNames[i], 10 + i)]

\* The non-empty sequences over S of length at most n.
RECURSIVE SeqsUpTo(_, _)
SeqsUpTo(S, n) ==
  IF n = 0 THEN {}
  ELSE LET shorter == SeqsUpTo(S, n - 1) IN
       {<<x>> : x \in S} \cup shorter \cup {Append(q, x) : q \in shorter, x \in S}

Atoms ==
  {EUnit, EBool, EInt, EFloat, EVar("x"), EVar("f"), EVar("a"), EVar("p"),
   EVar("print_int")}

ArgSeqs == SeqsUpTo({EUnit, EInt, EVar("x")}, MaxArgs)

SimpleExprs ==
  Atoms
    \cup {EOp1(op, e) : op \in {"Not", "Neg", "FNeg"}, e \in {EBool, EInt, EFloat, EVar("x")}}
    \cup {EOp2(op, e1, e2) : op \in {"Add", "FAdd", "Eq"},
                             e1 \in {EInt, EFloat, EVar("x")},
                             e2 \in {EInt, EFloat, EVar("a")}}
    \cup {EOp3("If", c, e1, e2) : c \in {EBool, EVar("x")},
                                  e1 \in {EUnit, EInt}, e2 \in {EUnit, EVar("x")}}
    \cup {EApp(g, args) : g \in {EVar("f"), EVar("print_int"), EVar("x")}, args \in ArgSeqs}
    \cup {EApp(EVar("print_int"), <<EApp(EVar("f"), args)>>) : args \in ArgSeqs}
    \cup {ETuple(args) : args \in SeqsUpTo({EInt, EVar("x")}, MaxArgs)}
    \cup {EOp2("Array", e1, e2) : e1 \in {EInt, EFloat}, e2 \in {EUnit, EInt, EVar("x")}}
    \cup {EOp2("Get", e1, e2) : e1 \in {EVar("x"), EVar("a")}, e2 \in {EInt, EFloat}}
    \cup {EOp3("Put", e1, e2, e3) : e1 \in {EVar("x")}, e2 \in {EInt},
                                    e3 \in {EUnit, EInt, EVar("x")}}

\* The shapes of a program: a simple expression alone, or a Let, LetRec
\* (with n arguments) or LetTuple over two simple expressions.
Shapes ==
  {[kind |-> k, n |-> 0] : k \in {"Simple", "Let", "LetTuple"}}
    \cup {[kind |-> "LetRec", n |-> n] : n \in 0 .. MaxArgs}

MkProgram(shape, rhs, body) ==
  IF shape.kind = "Simple" THEN body
  ELSE IF shape.kind = "Let" THEN ELet(BndrX, rhs, body)
  ELSE IF shape.kind = "LetTuple" THEN ELetTuple(<<BndrP, BndrQ>>, rhs, body)
  ELSE ELetRec(BndrF, ArgBndrs(shape.n), rhs, body)

(***************************************************************************)
(* Code generation (src/src/codegen.rs).                                   *)
(*                                                                         *)
(* Ctx (crate::ctx), RepType (crate::cg_types) and the lowered IR that     *)
(* codegen.rs consumes (lower::Fun { name, args, blocks, return_type },    *)
(* lower::Block { label, stmts, exit }, Stmt, Expr, Atom, Exit; crate::    *)
(* common::{BinOp, Cmp, ..}) are not among the sources; they are written   *)
(* down here from the specification's data model.                          *)
(***************************************************************************)
\* const WORD_SIZE: u8 = 8
WORD_SIZE == 8

\* RepType::from(&Type): Float is Float-represented, everything else Word.
RepTypeFrom(ty) == IF ty.tag = "Float" THEN "Float" ELSE "Word"

\* rep_type_abi
rep_type_abi(rep) == IF rep = "Word" THEN "I64" ELSE "F64"

\* The variable table of the Ctx: VarId v is the index of its entry, and
\* also the Uniq of the variable (the back end's local slot number).
CtxVars ==
  << [name |-> "print_int", ty |-> TFun(<<TInt>>, TUnit)],
     [name |-> "mincaml_main", ty |-> TFun(<<>>, TUnit)],
     [name |-> "g", ty |-> TFun(<<TInt>>, TInt)],
     [name |-> "arg", ty |-> TInt],
     [name |-> "n", ty |-> TInt],
     [name |-> "x", ty |-> TFloat],
     [name |-> "t", ty |-> TTuple(<<TInt, TFloat>>)],
     [name |-> "arr", ty |-> TArray(TFloat)],
     [name |-> "clo", ty |-> TFun(<<TInt>>, TInt)],
     [name |-> "r", ty |-> TInt],
     [name |-> "arr2", ty |-> TArray(TFloat)],
     [name |-> "m", ty |-> TInt],
     [name |-> "y", ty |-> TFloat] >>

\* The VarId of the variable of a name.
VarIdOf(name) == CHOOSE v \in 1 .. Len(CtxVars) : CtxVars[v].name = name

VPrintInt == VarIdOf("print_int")

VMain == VarIdOf("mincaml_main")

VG == VarIdOf("g")

VArg == VarIdOf("arg")

VN == VarIdOf("n")

VX == VarIdOf("x")

VT == VarIdOf("t")

VArr == VarIdOf("arr")

VClo == VarIdOf("clo")

VR == VarIdOf("r")

VArr2 == VarIdOf("arr2")

VM == VarIdOf("m")

VY == VarIdOf("y")

VarIds == 1 .. Len(CtxVars)

\* ctx.builtins()
ctx_builtins == <<VPrintInt>>

\* ctx.var_type(var)
var_type(var) == CtxVars[var].ty

\* ctx.var_rep_type(var)
var_rep_type(var) == RepTypeFrom(var_type(var))

\* ctx.get_var(var).get_uniq()
get_uniq(var) == var

\* The first Uniq ctx.fresh_uniq() hands out during code generation.
FirstFreshUniq == Len(CtxVars) + 1

(***************************************************************************)
(* The lowered IR.  An expression is a record of one shape: tag, op (the   *)
(* operator of IBinOp / FBinOp), vars (the VarIds it mentions, in the      *)
(* order of its fields), imm (the literal of Int / Float, the len of       *)
(* Tuple, the idx of TuplePut / TupleGet), rep (the return RepType of      *)
(* App).                                                                   *)
(***************************************************************************)
MkIrExpr(tag, op, vs, imm, rep) ==
  [tag |-> tag, op |-> op, vars |-> vs, imm |-> imm, rep |-> rep]

AtomUnit == MkIrExpr("Unit", "", <<>>, 0, "")

AtomInt(i) == MkIrExpr("Int", "", <<>>, i, "")

AtomFloat(f) == MkIrExpr("Float", "", <<>>, f, "")

AtomVar(var) == MkIrExpr("Var", "", <<var>>, 0, "")

IBinOp(op, arg1, arg2) == MkIrExpr("IBinOp", op, <<arg1, arg2>>, 0, "")

FBinOp(op, arg1, arg2) == MkIrExpr("FBinOp", op, <<arg1, arg2>>, 0, "")

IrNeg(var) == MkIrExpr("Neg", "", <<var>>, 0, "")

IrFNeg(var) == MkIrExpr("FNeg", "", <<var>>, 0, "")

\* App(fun, args, ret_type): vars is the function followed by the arguments.
IrApp(fun, args, ret_type) == MkIrExpr("App", "", <<fun>> \o args, 0, ret_type)

IrTuple(len) == MkIrExpr("Tuple", "", <<>>, len, "")

TuplePut(tuple, idx, val) == MkIrExpr("TuplePut", "", <<tuple, val>>, idx, "")

TupleGet(tuple, idx) == MkIrExpr("TupleGet", "", <<tuple>>, idx, "")

ArrayAlloc(len, elem) == MkIrExpr("ArrayAlloc", "", <<len, elem>>, 0, "")

ArrayGet(array, idx) == MkIrExpr("ArrayGet", "", <<array, idx>>, 0, "")

ArrayPut(array, idx, val) == MkIrExpr("ArrayPut", "", <<array, idx, val>>, 0, "")

\* Stmt::Asgn(Asgn { lhs, rhs }); Stmt::Expr(expr) has lhs 0.
StmtAsgn(lhs, rhs) == [lhs |-> lhs, rhs |-> rhs]

StmtExpr(expr) == [lhs |-> 0, rhs |-> expr]

\* Exit, a record of one shape.
ExitReturn(var) ==
  [tag |-> "Return", v1 |-> var, v2 |-> 0, cond |-> "", then_label |-> 0, else_label |-> 0]

ExitBranch(v1, v2, cond, then_label, else_label) ==
  [tag |-> "Branch", v1 |-> v1, v2 |-> v2, cond |-> cond,
   then_label |-> then_label, else_label |-> else_label]

ExitJump(label) ==
  [tag |-> "Jump", v1 |-> 0, v2 |-> 0, cond |-> "", then_label |-> label, else_label |-> 0]

MkBlock(label, stmts, exit) == [label |-> label, stmts |-> stmts, exit |-> exit]

MkFun(name, args, blocks, return_type) ==
  [name |-> name, args |-> args, blocks |-> blocks, return_type |-> return_type]

Cmps ==
  {"Equal", "NotEqual", "LessThan", "LessThanOrEqual", "GreaterThan", "GreaterThanOrEqual"}

(***************************************************************************)
(* The function under construction (cranelift's FunctionBuilder, an        *)
(* external library, by its documented behaviour): nblocks, the number of  *)
(* blocks created (block k is the k-th one created); cur, the block        *)
(* switched to; next_val, the number of SSA values made; trace, what was   *)
(* done to the function, in order: the instructions emitted (with the      *)
(* block they went to) and the blocks sealed.  declare_var, def_var and    *)
(* use_var of a Variable are kept as instructions of the trace.            *)
(***************************************************************************)
NoSig == [params |-> <<>>, returns |-> <<>>]

MkSig(params, returns) == [params |-> params, returns |-> returns]

\* An instruction: op, cc (condition code), args (SSA values), res (the
\* value it defines, 0 if none), blk (the block it branches to, 0 if none),
\* imm (immediate or offset), ty (controlling type), ref (FuncId, DataId or
\* Variable it refers to), sig (signature of an indirect call).
MkIns(op, cc, args, res, blk, imm, ty, ref, sig) ==
  [op |-> op, cc |-> cc, args |-> args, res |-> res, blk |-> blk, imm |-> imm,
   ty |-> ty, ref |-> ref, sig |-> sig]

NoIns == MkIns("none", "", <<>>, 0, 0, 0, "", 0, NoSig)

\* FunctionBuilder::new on a fresh function.
NewBuilder == [nblocks |-> 0, cur |-> 0, next_val |-> 0, trace |-> <<>>]

\* builder.create_block(): the new block is number nblocks of the result.
create_block(b) == [b EXCEPT !.nblocks = @ + 1]

\* builder.switch_to_block(blk)
switch_to_block(b, blk) == [b EXCEPT !.cur = blk]

\* A variant of seal_block that seals nothing but the block switched to.
seal_block_current_only(b, blk) ==
  IF blk = b.cur
  THEN [b EXCEPT !.trace = Append(@, [ev |-> "seal", blk |-> blk, ins |-> NoIns])]
  ELSE b

\* builder.seal_block(blk)
seal_block(b, blk) ==
  [b EXCEPT !.trace = Append(@, [ev |-> "seal", blk |-> blk, ins |-> NoIns])]

\* builder.ins().<op>(..) of an instruction that defines no value.
ins_effect(b, op, cc, args, blk, imm, ty, ref) ==
  [b EXCEPT !.trace = Append(@, [ev |-> "ins", blk |-> b.cur,
                                 ins |-> MkIns(op, cc, args, 0, blk, imm, ty, ref, NoSig)])]

\* builder.ins().<op>(..) of an instruction that defines a value: the value
\* is number next_val of the result.
ins_value(b, op, cc, args, imm, ty, ref, sig) ==
  [b EXCEPT !.next_val = @ + 1,
            !.trace = Append(@, [ev |-> "ins", blk |-> b.cur,
                                 ins |-> MkIns(op, cc, args, b.next_val + 1, 0, imm, ty,
                                               ref, sig)])]

\* builder.append_block_params_for_function_params(entry_block) for n
\* parameters: values next_val + 1 .. next_val + n.
append_block_params(b, tys) ==
  [b EXCEPT !.next_val = @ + Len(tys),
            !.trace = Append(@, [ev |-> "ins", blk |-> b.cur,
                                 ins |-> MkIns("block_params", "",
                                               [i \in 1 .. Len(tys) |-> b.next_val + i],
                                               0, 0, 0, "", 0, MkSig(tys, <<>>))])]

(***************************************************************************)
(* struct Env(FxHashMap<VarId, VarVal>): a function from the bound VarIds  *)
(* to VarVal records.                                                      *)
(***************************************************************************)
VarValArg(val) == [tag |-> "Arg", id |-> val]

VarValFun(fun_id) == [tag |-> "Fun", id |-> fun_id]

VarValData(data_id) == [tag |-> "Data", id |-> data_id]

\* Env::new
Env_new == [v \in {} |-> VarValArg(0)]

EnvInsert(env, var, val) ==
  [v \in DOMAIN env \cup {var} |-> IF v = var THEN val ELSE env[v]]

\* Env::add_arg
add_arg(env, var, val) == EnvInsert(env, var, VarValArg(val))

\* Env::add_fun
add_fun(env, var, val) == EnvInsert(env, var, VarValFun(val))

\* Env::add_data
add_data(env, var, val) == EnvInsert(env, var, VarValData(val))

\* Env::get_fun: <<>> for None.
get_fun(env, var) ==
  IF var \in DOMAIN env /\ env[var].tag = "Fun" THEN <<env[var].id>> ELSE <<>>

(***************************************************************************)
(* The state the emission of one function threads through codegen_expr    *)
(* and Env::use_var: env (the function's Env), b (the builder), uniq (the  *)
(* next Uniq of ctx.fresh_uniq), block (the current target block of the   *)
(* statement loop), val (the Value the call returned, 0 for None), vals    *)
(* (the Values a map over variables collected), panicked (a panic! on the  *)
(* way, with its message in panic_msg).                                    *)
(***************************************************************************)
CgState(env, b, uniq, block) ==
  [env |-> env, b |-> b, uniq |-> uniq, block |-> block, val |-> 0, vals |-> <<>>,
   panicked |-> FALSE, panic_msg |-> ""]

\* What follows a call in the code runs on the state the call left.
Then(st, Rest(_)) == Rest(st)

CgPanic(st, msg) == [st EXCEPT !.panicked = TRUE, !.panic_msg = msg, !.val = 0]

\* An instruction without a value, emitted on the threaded builder.
CgEffect(st, op, cc, args, blk, imm, ty, ref) ==
  [st EXCEPT !.b = ins_effect(@, op, cc, args, blk, imm, ty, ref), !.val = 0]

\* An instruction with a value, emitted on the threaded builder; val is the
\* value it defines.
CgValue(st, op, cc, args, imm, ty, ref, sig) ==
  [st EXCEPT !.b = ins_value(@, op, cc, args, imm, ty, ref, sig),
             !.val = st.b.next_val + 1]

\* A variant of Env::use_var that caches the materialised value of a Fun
\* or Data variable in the Env (the insertions the source has commented
\* out).
use_var_caching(st, var) ==
  IF var \notin DOMAIN st.env
  THEN CgValue(st, "use_var", "", <<>>, 0, "", get_uniq(var), NoSig)
  ELSE IF st.env[var].tag = "Arg" THEN [st EXCEPT !.val = st.env[var].id]
  ELSE [st EXCEPT !.b = ins_value(@, IF st.env[var].tag = "Fun" THEN "func_addr"
                                     ELSE "global_value",
                                  "", <<>>, 0, "I64", st.env[var].id, NoSig),
                  !.val = st.b.next_val + 1,
                  !.env = add_arg(@, var, st.b.next_val + 1)]

\* Env::use_var: the value of a function argument; for a Fun or Data
\* variable a func_addr / global_value instruction emitted at the use
\* site; for any other variable the builder's use_var of its local slot.
use_var(st, var) ==
  IF var \notin DOMAIN st.env
  THEN CgValue(st, "use_var", "", <<>>, 0, "", get_uniq(var), NoSig)
  ELSE IF st.env[var].tag = "Arg" THEN [st EXCEPT !.val = st.env[var].id]
  ELSE IF st.env[var].tag = "Fun"
    THEN CgValue(st, "func_addr", "", <<>>, 0, "I64", st.env[var].id, NoSig)
  ELSE CgValue(st, "global_value", "", <<>>, 0, "I64", st.env[var].id, NoSig)

\* `vars.iter().map(|arg| env.use_var(.., *arg)).collect()` from position i.
RECURSIVE use_vars(_, _, _, _)
use_vars(st, vs, i, vals) ==
  IF i > Len(vs) THEN [st EXCEPT !.vals = vals]
  ELSE Then(use_var(st, vs[i]),
            LAMBDA s1 : use_vars(s1, vs, i + 1, Append(vals, s1.val)))

\* builder.create_block() n times.
CgCreateBlocks(st, n) == [st EXCEPT !.b.nblocks = @ + n]

CgSwitch(st, blk) == [st EXCEPT !.b = switch_to_block(@, blk)]

CgSeal(st, blk) == [st EXCEPT !.b = seal_block(@, blk)]

\* `let uniq = ctx.fresh_uniq(); let var = Variable::new(uniq);
\*  builder.declare_var(var, ty)`: the Variable is uniq of the argument state.
CgFreshVar(st, ty) ==
  [st EXCEPT !.uniq = @ + 1,
             !.b = ins_effect(@, "declare_var", "", <<>>, 0, 0, ty, st.uniq)]

\* builder.def_var(var, val)
CgDefVar(st, var, val) == CgEffect(st, "def_var", "", <<val>>, 0, 0, "", var)

\* The FuncId module.declare_function gave malloc: the first declaration
\* of a fresh module.
malloc_id == [nfuncs |-> 0, ndata |-> 0, log |-> <<>>].nfuncs

int_op(op) ==
  IF op = "Add" THEN "iadd" ELSE IF op = "Sub" THEN "isub"
  ELSE IF op = "Mul" THEN "imul" ELSE "sdiv"

float_op(op) ==
  IF op = "Add" THEN "fadd" ELSE IF op = "Sub" THEN "fsub"
  ELSE IF op = "Mul" THEN "fmul" ELSE "fdiv"

\* Expr::IBinOp, Expr::FBinOp: both operands, then the instruction.
codegen_binop(st, rhs, opcode, ty) ==
  Then(use_var(st, rhs.vars[1]), LAMBDA s1 :
  Then(use_var(s1, rhs.vars[2]), LAMBDA s2 :
  CgValue(s2, opcode, "", <<s1.val, s2.val>>, 0, ty, 0, NoSig)))

\* Expr::Neg, Expr::FNeg
codegen_unop(st, rhs, opcode, ty) ==
  Then(use_var(st, rhs.vars[1]), LAMBDA s1 :
  CgValue(s1, opcode, "", <<s1.val>>, 0, ty, 0, NoSig))

\* Expr::App: a signature from the rep types of the arguments and the
\* return type, the callee, the arguments, an indirect call.
codegen_app(st, rhs) ==
  LET args == SubSeq(rhs.vars, 2, Len(rhs.vars))
      fun_sig == MkSig([i \in 1 .. Len(args) |-> rep_type_abi(var_rep_type(args[i]))],
                       <<rep_type_abi(rhs.rep)>>)
  IN
  Then(use_var(st, rhs.vars[1]), LAMBDA s1 :
  Then(use_vars(s1, args, 1, <<>>), LAMBDA s2 :
  CgValue(s2, "call_indirect", "", <<s1.val>> \o s2.vals, 0, rep_type_abi(rhs.rep), 0,
          fun_sig)))

\* Expr::Tuple { len }: malloc(len * WORD_SIZE).
codegen_tuple(st, rhs) ==
  Then(CgValue(st, "iconst", "", <<>>, rhs.imm * WORD_SIZE, "I64", 0, NoSig), LAMBDA s1 :
  CgValue(s1, "call", "", <<s1.val>>, 0, "I64", malloc_id, NoSig))

\* Expr::TuplePut: the store is emitted whatever the type of the variable;
\* the expression has no value.
codegen_tuple_put(st, rhs) ==
  Then(use_var(st, rhs.vars[1]), LAMBDA s1 :
  Then(use_var(s1, rhs.vars[2]), LAMBDA s2 :
  CgEffect(s2, "store", "", <<s2.val, s1.val>>, 0, rhs.imm * WORD_SIZE, "", 0)))

\* A variant of the match of TupleGet without the panicking arm.
tuple_get_elem_type_lenient(ty, idx) ==
  IF ty.tag = "Tuple" /\ idx < Len(ty.args)
  THEN [panic |-> "", ty |-> rep_type_abi(RepTypeFrom(ty.args[idx + 1]))]
  ELSE [panic |-> "", ty |-> "I64"]

\* The match of TupleGet on the source type of the variable: the load type
\* of slot idx, or a panic.
tuple_get_elem_type(ty, idx) ==
  IF ty.tag = "Tuple"
  THEN IF idx < Len(ty.args)
       THEN [panic |-> "", ty |-> rep_type_abi(RepTypeFrom(ty.args[idx + 1]))]
       ELSE [panic |-> "index out of bounds", ty |-> ""]
  ELSE IF ty.tag = "Fun" THEN [panic |-> "", ty |-> "I64"]
  ELSE [panic |-> "Non-tuple in tuple position", ty |-> ""]

\* The load of TupleGet once the load type is known.
codegen_tuple_load(st, rhs, elem_type) ==
  IF elem_type.panic # "" THEN CgPanic(st, elem_type.panic)
  ELSE Then(use_var(st, rhs.vars[1]), LAMBDA s1 :
       CgValue(s1, "load", "", <<s1.val>>, rhs.imm * WORD_SIZE, elem_type.ty, 0, NoSig))

\* Expr::TupleGet
codegen_tuple_get(st, rhs) ==
  codegen_tuple_load(st, rhs, tuple_get_elem_type(var_type(rhs.vars[1]), rhs.imm))

\* Expr::ArrayAlloc { len, elem }: malloc(len * 8), then a loop that stores
\* elem at every slot.  With nb blocks so far, header (loop_block) is
\* block nb + 1, body (loop_doit_block) nb + 2 and cont nb + 3.
codegen_array_alloc(st, rhs) ==
  LET loop_block == st.b.nblocks + 1
      loop_doit_block == st.b.nblocks + 2
      cont_block == st.b.nblocks + 3
  IN
  Then(use_var(st, rhs.vars[1]), LAMBDA len_val :
  Then(CgValue(len_val, "iconst", "", <<>>, WORD_SIZE, "I64", 0, NoSig), LAMBDA word_size :
  Then(CgValue(word_size, "imul", "", <<len_val.val, word_size.val>>, 0, "I64", 0, NoSig),
       LAMBDA size_val :
  Then(CgValue(size_val, "call", "", <<size_val.val>>, 0, "I64", malloc_id, NoSig),
       LAMBDA array :
  Then(use_var(array, rhs.vars[2]), LAMBDA elem_val :
  Then(CgFreshVar(elem_val, "I64"), LAMBDA bound_var :
  Then(CgValue(bound_var, "iadd", "", <<array.val, size_val.val>>, 0, "I64", 0, NoSig),
       LAMBDA array_bound_val :
  Then(CgDefVar(array_bound_val, elem_val.uniq, array_bound_val.val), LAMBDA s1 :
  Then(CgFreshVar(CgCreateBlocks(s1, 3), "I64"), LAMBDA idx_var :
  Then(CgDefVar(idx_var, s1.uniq, array.val), LAMBDA s2 :
  Then(CgEffect(s2, "jump", "", <<>>, loop_block, 0, "", 0), LAMBDA s3 :
  Then(CgSwitch(CgSeal(s3, st.block), loop_block), LAMBDA s4 :
  Then(CgValue(s4, "use_var", "", <<>>, 0, "I64", s1.uniq, NoSig), LAMBDA idx_val :
  Then(CgEffect(idx_val, "br_icmp", "eq", <<idx_val.val, array_bound_val.val>>,
                cont_block, 0, "", 0), LAMBDA s5 :
  Then(CgEffect(s5, "fallthrough", "", <<>>, loop_doit_block, 0, "", 0), LAMBDA s6 :
  Then(CgEffect(CgSwitch(s6, loop_doit_block), "store", "",
                <<elem_val.val, idx_val.val>>, 0, 0, "", 0), LAMBDA s7 :
  Then(CgValue(s7, "iconst", "", <<>>, WORD_SIZE, "I64", 0, NoSig), LAMBDA word_size2 :
  Then(CgValue(word_size2, "iadd", "", <<idx_val.val, word_size2.val>>, 0, "I64", 0, NoSig),
       LAMBDA next_idx :
  Then(CgDefVar(next_idx, s1.uniq, next_idx.val), LAMBDA s8 :
  Then(CgEffect(s8, "jump", "", <<>>, loop_block, 0, "", 0), LAMBDA s9 :
  [CgSwitch(CgSeal(CgSeal(s9, loop_block), loop_doit_block), cont_block)
     EXCEPT !.block = cont_block, !.val = array.val]))))))))))))))))))))

\* The match of ArrayGet on the source type of the variable.
array_get_elem_type(ty) ==
  IF ty.tag = "Array"
  THEN [panic |-> "", ty |-> rep_type_abi(RepTypeFrom(ty.args[1]))]
  ELSE [panic |-> "Non-array in array location", ty |-> ""]

\* The load of ArrayGet once the load type is known.
codegen_array_load(st, rhs, elem_type) ==
  IF elem_type.panic # "" THEN CgPanic(st, elem_type.panic)
  ELSE Then(use_var(st, rhs.vars[1]), LAMBDA array :
       Then(use_var(array, rhs.vars[2]), LAMBDA idx :
       Then(CgValue(idx, "iconst", "", <<>>, WORD_SIZE, "I64", 0, NoSig), LAMBDA word_size :
       Then(CgValue(word_size, "imul", "", <<idx.val, word_size.val>>, 0, "I64", 0, NoSig),
            LAMBDA offset :
       CgValue(offset, "load_complex", "", <<array.val, offset.val>>, 0, elem_type.ty, 0,
               NoSig)))))

\* Expr::ArrayGet
codegen_array_get(st, rhs) ==
  codegen_array_load(st, rhs, array_get_elem_type(var_type(rhs.vars[1])))

\* Expr::ArrayPut: the store is emitted whatever the type of the variable;
\* the value of the expression is the word 0.
codegen_array_put(st, rhs) ==
  Then(use_var(st, rhs.vars[1]), LAMBDA array :
  Then(use_var(array, rhs.vars[2]), LAMBDA idx :
  Then(use_var(idx, rhs.vars[3]), LAMBDA val :
  Then(CgValue(val, "iconst", "", <<>>, 8, "I64", 0, NoSig), LAMBDA word_size :
  Then(CgValue(word_size, "imul", "", <<idx.val, word_size.val>>, 0, "I64", 0, NoSig),
       LAMBDA offset :
  Then(CgEffect(offset, "store_complex", "", <<val.val, array.val, offset.val>>, 0, 0, "", 0),
       LAMBDA s1 :
  CgValue(s1, "iconst", "", <<>>, 0, "I64", 0, NoSig)))))))

\* codegen_expr(ctx, module, block, builder, env, malloc, rhs): block is
\* st.block; the result is (st.block, st.val) of the state returned.
codegen_expr(st, rhs) ==
  CASE rhs.tag = "Unit" -> CgValue(st, "iconst", "", <<>>, 0, "I64", 0, NoSig)
    [] rhs.tag = "Int" -> CgValue(st, "iconst", "", <<>>, rhs.imm, "I64", 0, NoSig)
    [] rhs.tag = "Float" -> CgValue(st, "f64const", "", <<>>, rhs.imm, "F64", 0, NoSig)
    [] rhs.tag = "Var" -> use_var(st, rhs.vars[1])
    [] rhs.tag = "IBinOp" -> codegen_binop(st, rhs, int_op(rhs.op), "I64")
    [] rhs.tag = "FBinOp" -> codegen_binop(st, rhs, float_op(rhs.op), "F64")
    [] rhs.tag = "Neg" -> codegen_unop(st, rhs, "ineg", "I64")
    [] rhs.tag = "FNeg" -> codegen_unop(st, rhs, "fneg", "F64")
    [] rhs.tag = "App" -> codegen_app(st, rhs)
    [] rhs.tag = "Tuple" -> codegen_tuple(st, rhs)
    [] rhs.tag = "TuplePut" -> codegen_tuple_put(st, rhs)
    [] rhs.tag = "TupleGet" -> codegen_tuple_get(st, rhs)
    [] rhs.tag = "ArrayAlloc" -> codegen_array_alloc(st, rhs)
    [] rhs.tag = "ArrayGet" -> codegen_array_get(st, rhs)
    [] rhs.tag = "ArrayPut" -> codegen_array_put(st, rhs)

\* A variant of word_cond with the unsigned integer conditions.
word_cond_unsigned(cond) ==
  CASE cond = "Equal" -> "eq"
    [] cond = "NotEqual" -> "ne"
    [] cond = "LessThan" -> "ult"
    [] cond = "LessThanOrEqual" -> "ule"
    [] cond = "GreaterThan" -> "ugt"
    [] cond = "GreaterThanOrEqual" -> "uge"

\* word_cond: Cmp to IntCC (by cranelift's mnemonics: slt is
\* IntCC::SignedLessThan, ..).
word_cond(cond) ==
  CASE cond = "Equal" -> "eq"
    [] cond = "NotEqual" -> "ne"
    [] cond = "LessThan" -> "slt"
    [] cond = "LessThanOrEqual" -> "sle"
    [] cond = "GreaterThan" -> "sgt"
    [] cond = "GreaterThanOrEqual" -> "sge"

\* float_cond: Cmp to FloatCC (lt is FloatCC::LessThan, ..).
float_cond(cond) ==
  CASE cond = "Equal" -> "eq"
    [] cond = "NotEqual" -> "ne"
    [] cond = "LessThan" -> "lt"
    [] cond = "LessThanOrEqual" -> "le"
    [] cond = "GreaterThan" -> "gt"
    [] cond = "GreaterThanOrEqual" -> "ge"

\* label_to_block after the loop that creates one target block per IR
\* block: the i-th block created is block i, and a later insert of the same
\* label replaces an earlier one.
label_to_block(blocks) ==
  [l \in {blocks[i].label : i \in 1 .. Len(blocks)} |->
     CHOOSE i \in 1 .. Len(blocks) :
       /\ blocks[i].label = l
       /\ \A j \in 1 .. Len(blocks) : blocks[j].label = l => j <= i]

\* Exit::Branch once both operands are values: Word operands get one
\* br_icmp to then_block, Float operands an fcmp and a brnz to then_block;
\* then the jump to else_block.
codegen_branch(st, exit, v1, v2, then_block, else_block) ==
  IF RepTypeFrom(var_type(exit.v1)) = "Word"
  THEN Then(CgEffect(st, "br_icmp", word_cond(exit.cond), <<v1, v2>>, then_block, 0, "", 0),
            LAMBDA s1 :
       CgEffect(s1, "jump", "", <<>>, else_block, 0, "", 0))
  ELSE Then(CgValue(st, "fcmp", float_cond(exit.cond), <<v1, v2>>, 0, "B1", 0, NoSig),
            LAMBDA cmp :
       Then(CgEffect(cmp, "brnz", "", <<cmp.val>>, then_block, 0, "", 0), LAMBDA s1 :
       CgEffect(s1, "jump", "", <<>>, else_block, 0, "", 0)))

\* `match exit { .. }` of codegen_fun.
codegen_exit(st, exit, l2b) ==
  IF exit.tag = "Return"
  THEN Then(use_var(st, exit.v1), LAMBDA var :
       CgEffect(var, "return", "", <<var.val>>, 0, 0, "", 0))
  ELSE IF exit.tag = "Branch"
  THEN Then(use_var(st, exit.v1), LAMBDA v1 :
       Then(use_var(v1, exit.v2), LAMBDA v2 :
       codegen_branch(v2, exit, v1.val, v2.val, l2b[exit.then_label], l2b[exit.else_label])))
  ELSE CgEffect(st, "jump", "", <<>>, l2b[exit.then_label], 0, "", 0)

\* The declaration and definition of the left-hand side of an Asgn:
\* val.unwrap() panics on an expression without a value.
codegen_asgn_lhs(st, lhs, val) ==
  Then(CgEffect(st, "declare_var", "", <<>>, 0, 0, rep_type_abi(var_rep_type(lhs)),
                get_uniq(lhs)), LAMBDA s1 :
  IF val = 0 THEN CgPanic(s1, "called Option::unwrap() on a None value")
  ELSE CgDefVar(s1, get_uniq(lhs), val))

\* `match stmt { .. }` of codegen_fun: cl_block is the block field of the
\* state, before and after.
codegen_stmt(st, stmt) ==
  Then(codegen_expr(st, stmt.rhs), LAMBDA s1 :
  IF s1.panicked \/ stmt.lhs = 0 THEN s1
  ELSE codegen_asgn_lhs(s1, stmt.lhs, s1.val))

\* The signature of a Fun: rep_type_abi of its arguments and of its
\* return type.
fun_signature(fun) ==
  MkSig([i \in 1 .. Len(fun.args) |-> rep_type_abi(var_rep_type(fun.args[i]))],
        <<rep_type_abi(fun.return_type)>>)

\* `for (arg_idx, arg) in args.iter().enumerate() { env.add_arg(*arg,
\* block_params[arg_idx]) }` from position i; the block parameters are the
\* first values of the function.
RECURSIVE add_args(_, _, _)
add_args(env, args, i) ==
  IF i > Len(args) THEN env ELSE add_args(add_arg(env, args[i], i), args, i + 1)

\* codegen_fun up to the block loop: one target block per IR block, the
\* entry block (that of blocks[0]) switched to and given the function's
\* parameters, a clone of the module-level Env extended with the arguments.
codegen_fun_begin(global_env, fun, uniq) ==
  IF get_fun(global_env, fun.name) = <<>>
  THEN CgPanic(CgState(global_env, NewBuilder, uniq, 0), "Can't find FuncId of function")
  ELSE CgState(add_args(global_env, fun.args, 1),
               append_block_params(
                 switch_to_block([NewBuilder EXCEPT !.nblocks = Len(fun.blocks)],
                                 label_to_block(fun.blocks)[fun.blocks[1].label]),
                 fun_signature(fun).params),
               uniq, 0)

(***************************************************************************)
(* The object module (cranelift_module::Module, an external library):      *)
(* nfuncs and ndata, the numbers of functions and data objects declared    *)
(* (FuncId and DataId count from 0), and log, what was done to the module, *)
(* in order.                                                               *)
(***************************************************************************)
MkModuleEvent(ev, name, id, linkage, sig, code) ==
  [ev |-> ev, name |-> name, id |-> id, linkage |-> linkage, sig |-> sig, code |-> code]

NewModule == [nfuncs |-> 0, ndata |-> 0, log |-> <<>>]

\* module.declare_function(name, linkage, sig): the FuncId is nfuncs of the
\* argument.
declare_function(m, name, linkage, sig) ==
  [m EXCEPT !.nfuncs = @ + 1,
            !.log = Append(@, MkModuleEvent("declare_function", name, m.nfuncs, linkage,
                                            sig, <<>>))]

\* module.declare_data(name, linkage, ..): the DataId is ndata of the
\* argument.
declare_data(m, name, linkage) ==
  [m EXCEPT !.ndata = @ + 1,
            !.log = Append(@, MkModuleEvent("declare_data", name, m.ndata, linkage,
                                            NoSig, <<>>))]

\* module.define_function(func_id, context, ..)
define_function(m, func_id, code) ==
  [m EXCEPT !.log = Append(@, MkModuleEvent("define_function", "", func_id, "", NoSig,
                                            code))]

\* module.finalize_definitions()
finalize_definitions(m) ==
  [m EXCEPT !.log = Append(@, MkModuleEvent("finalize_definitions", "", 0, "", NoSig,
                                            <<>>))]

\* declare_malloc
declare_malloc(m) == declare_function(m, "malloc", "Import", MkSig(<<"I64">>, <<"I64">>))

\* What init_module_env threads through its loops: module, env,
\* main_fun_id (<<>> for None) and the panic of a failed assertion.
InitEnvState(m, env) ==
  [module |-> m, env |-> env, main_fun_id |-> <<>>, panicked |-> FALSE, panic_msg |-> ""]

\* The loop over ctx.builtins() from position i.
RECURSIVE declare_builtins(_, _)
declare_builtins(st, i) ==
  IF i > Len(ctx_builtins) THEN st
  ELSE declare_builtins(
         [st EXCEPT !.module = declare_data(@, CtxVars[ctx_builtins[i]].name, "Import"),
                    !.env = add_data(@, ctx_builtins[i], st.module.ndata)],
         i + 1)

\* A variant of the body of the loop over funs without the assertions on
\* the main function.
declare_fun_unasserted(st, fun, main_id) ==
  [st EXCEPT !.module = declare_function(@, CtxVars[fun.name].name, "Local",
                                         fun_signature(fun)),
             !.main_fun_id = IF fun.name = main_id THEN <<st.module.nfuncs>> ELSE @,
             !.env = add_fun(@, fun.name, st.module.nfuncs)]

\* The body of the loop over funs: the declaration, the assertions on the
\* function named main_id, the Env entry.
declare_fun(st, fun, main_id) ==
  IF fun.name = main_id /\ fun.args # <<>>
  THEN [st EXCEPT !.module = declare_function(@, CtxVars[fun.name].name, "Local",
                                              fun_signature(fun)),
                  !.main_fun_id = <<st.module.nfuncs>>,
                  !.panicked = TRUE,
                  !.panic_msg = "assertion failed: args.is_empty()"]
  ELSE IF fun.name = main_id /\ fun.return_type # "Word"
  THEN [st EXCEPT !.module = declare_function(@, CtxVars[fun.name].name, "Local",
                                              fun_signature(fun)),
                  !.main_fun_id = <<st.module.nfuncs>>,
                  !.panicked = TRUE,
                  !.panic_msg = "assertion failed: (left == right)"]
  ELSE [st EXCEPT !.module = declare_function(@, CtxVars[fun.name].name, "Local",
                                              fun_signature(fun)),
                  !.main_fun_id = IF fun.name = main_id THEN <<st.module.nfuncs>> ELSE @,
                  !.env = add_fun(@, fun.name, st.module.nfuncs)]

\* The loop over funs from position i; a panic ends it.
RECURSIVE declare_funs(_, _, _, _)
declare_funs(st, funs, main_id, i) ==
  IF i > Len(funs) \/ st.panicked THEN st
  ELSE declare_funs(declare_fun(st, funs[i], main_id), funs, main_id, i + 1)

\* `main_fun_id.expect("Can't find main function")`
expect_main(st) ==
  IF ~st.panicked /\ st.main_fun_id = <<>>
  THEN [st EXCEPT !.panicked = TRUE, !.panic_msg = "Can't find main function"]
  ELSE st

\* A variant of init_module_env that declares the functions before the
\* built-ins.
init_module_env_funs_first(m, funs, main_id) ==
  expect_main(declare_builtins(declare_funs(InitEnvState(m, Env_new), funs, main_id, 1), 1))

\* init_module_env(ctx, module, funs, main_id)
init_module_env(m, funs, main_id) ==
  expect_main(declare_funs(declare_builtins(InitEnvState(m, Env_new), 1), funs, main_id, 1))

\* The body of the main stub: one block; a call of the user main, the i32
\* constant 0, the return of it; the block sealed.
make_main_body(main_id) ==
  seal_block(
    ins_effect(
      ins_value(
        ins_effect(switch_to_block(create_block(NewBuilder), 1),
                   "call", "", <<>>, 0, 0, "", main_id),
        "iconst", "", <<>>, 0, "I32", 0, NoSig),
      "return", "", <<1>>, 0, 0, "", 0),
    1)

\* make_main up to the verifier: the declaration of the exported "main".
make_main_declare(m) == declare_function(m, "main", "Export", MkSig(<<>>, <<"I32">>))

(***************************************************************************)
(* The inputs of codegen: funs and main_id over the Ctx above.  The        *)
(* function g takes every variable its statements mention as an argument;  *)
(* its blocks are one of the control-flow shapes below, with the           *)
(* statements under study in its entry block.                              *)
(***************************************************************************)
\* The most ArrayAlloc statements that follow the first statement of a
\* block.
MaxAllocs == 2

GArgs == <<VN, VX, VT, VArr, VClo>>

AllocStmts == {StmtAsgn(VArr2, ArrayAlloc(VN, VX)), StmtExpr(ArrayAlloc(VN, VX))}

\* Well-typed statements, statements that mention a function or a built-in
\* more than once, and statements that apply a tuple or array operation to
\* a variable of another type.
StmtPool ==
  AllocStmts \cup
  { StmtAsgn(VR, AtomInt(1)),
    StmtAsgn(VR, IBinOp("Add", VN, VN)),
    StmtAsgn(VR, IrApp(VG, <<VN>>, "Word")),
    StmtAsgn(VR, IrApp(VPrintInt, <<VN>>, "Word")),
    StmtAsgn(VR, IrApp(VClo, <<VN>>, "Word")),
    StmtAsgn(VR, IrApp(VG, <<VG>>, "Word")),
    StmtAsgn(VR, IrApp(VPrintInt, <<VPrintInt, VG>>, "Word")),
    StmtAsgn(VR, TupleGet(VT, 0)),
    StmtAsgn(VR, TupleGet(VClo, 0)),
    StmtAsgn(VR, TupleGet(VN, 0)),
    StmtAsgn(VR, TupleGet(VX, 1)),
    StmtExpr(TuplePut(VT, 0, VN)),
    StmtExpr(TuplePut(VN, 0, VN)),
    StmtExpr(TuplePut(VX, 1, VN)),
    StmtAsgn(VR, ArrayGet(VArr, VN)),
    StmtAsgn(VR, ArrayGet(VN, VN)),
    StmtAsgn(VR, ArrayGet(VT, VN)),
    StmtAsgn(VR, ArrayPut(VArr, VN, VX)),
    StmtAsgn(VR, ArrayPut(VN, VN, VN)),
    StmtAsgn(VR, ArrayPut(VT, VN, VX)) }

\* k times the ArrayAlloc statement.
RECURSIVE Allocs(_)
Allocs(k) ==
  IF k = 0 THEN <<>> ELSE <<StmtAsgn(VArr2, ArrayAlloc(VN, VX))>> \o Allocs(k - 1)

\* The statement sequences of an entry block: at most one statement of the
\* pool, then up to MaxAllocs ArrayAllocs.
StmtSeqs ==
  {Allocs(k) : k \in 0 .. MaxAllocs}
    \cup {<<s>> \o Allocs(k) : s \in StmtPool, k \in 0 .. MaxAllocs}

\* The labels of the blocks of g (a Label is a number of the lowering's
\* choice, not the position of the block).
LabelA == 7

LabelB == 5

LabelC == 9

CfgShapes == {"single", "jump", "branch", "diamond", "backward"}

\* The blocks of g: stmts in the entry block (labelled LabelA), rest in
\* every other block.
\*   single    A: return
\*   jump      A: jump B;  B: return
\*   branch    A: if v1 cond v2 then B else C;  B: return;  C: return
\*   diamond   A: if v1 cond v2 then B else C;  B: jump C;  C: return
\*   backward  A: jump C;  B: return;  C: jump B
GBlocks(shape, stmts, rest, v1, cond) ==
  CASE shape = "single" -> <<MkBlock(LabelA, stmts, ExitReturn(VN))>>
    [] shape = "jump" ->
         <<MkBlock(LabelA, stmts, ExitJump(LabelB)), MkBlock(LabelB, rest, ExitReturn(VN))>>
    [] shape = "branch" ->
         <<MkBlock(LabelA, stmts, ExitBranch(v1, v1, cond, LabelB, LabelC)),
           MkBlock(LabelB, rest, ExitReturn(VN)),
           MkBlock(LabelC, rest, ExitReturn(VN))>>
    [] shape = "diamond" ->
         <<MkBlock(LabelA, stmts, ExitBranch(v1, v1, cond, LabelB, LabelC)),
           MkBlock(LabelB, rest, ExitJump(LabelC)),
           MkBlock(LabelC, rest, ExitReturn(VN))>>
    [] shape = "backward" ->
         <<MkBlock(LabelA, stmts, ExitJump(LabelC)),
           MkBlock(LabelB, rest, ExitReturn(VN)),
           MkBlock(LabelC, rest, ExitJump(LabelB))>>

FunG(blocks) == MkFun(VG, GArgs, blocks, "Word")

\* The user main: no arguments, a Word.
FunMain == MkFun(VMain, <<>>, <<MkBlock(LabelA, <<StmtAsgn(VR, AtomInt(0))>>, ExitReturn(VR))>>,
                 "Word")

\* A function named main_id with an argument, and one that returns a Float.
FunMainWithArg == [FunMain EXCEPT !.args = <<VArg>>]

FunMainFloat == [FunMain EXCEPT !.return_type = "Float"]

Layouts == {"g_main", "main_g", "main", "g", "g_mainarg", "mainfloat_g"}

\* funs: g and the function named main_id, in either order, or one of them
\* missing, or main with the wrong shape.
MkFuns(layout, g) ==
  CASE layout = "g_main" -> <<g, FunMain>>
    [] layout = "main_g" -> <<FunMain, g>>
    [] layout = "main" -> <<FunMain>>
    [] layout = "g" -> <<g>>
    [] layout = "g_mainarg" -> <<g, FunMainWithArg>>
    [] layout = "mainfloat_g" -> <<FunMainFloat, g>>

(***************************************************************************)
(* The machine that runs emitted code (SpecRun).  A word has WordBits      *)
(* bits (64 in the target; the arithmetic is the same at any width): the   *)
(* integer instructions compute modulo 2^WordBits.  A float is a bit       *)
(* pattern of a sign bit and two magnitude bits: magnitude 0 is zero, 1    *)
(* is one, 2 is infinity and 3 is a NaN.                                   *)
(***************************************************************************)
WordBits == 6

RECURSIVE Pow2(_)
Pow2(k) == IF k = 0 THEN 1 ELSE 2 * Pow2(k - 1)

WordMod == Pow2(WordBits)

Words == 0 .. WordMod - 1

\* The integer a word stands for as a signed (two's complement) number.
Signed(w) == IF w >= Pow2(WordBits - 1) THEN w - WordMod ELSE w

\* What a comparison of the source language means on integers.
CmpHolds(cond, x, y) ==
  CASE cond = "Equal" -> x = y
    [] cond = "NotEqual" -> x # y
    [] cond = "LessThan" -> x < y
    [] cond = "LessThanOrEqual" -> x <= y
    [] cond = "GreaterThan" -> x > y
    [] cond = "GreaterThanOrEqual" -> x >= y

\* The icmp instruction on two words: the signed conditions compare the
\* words with the sign bit flipped, the unsigned ones the words.
FlipSign(w) == (w + Pow2(WordBits - 1)) % WordMod

icmp(cc, a, b) ==
  CASE cc = "eq" -> a = b
    [] cc = "ne" -> a # b
    [] cc = "slt" -> FlipSign(a) < FlipSign(b)
    [] cc = "sle" -> FlipSign(a) <= FlipSign(b)
    [] cc = "sgt" -> FlipSign(a) > FlipSign(b)
    [] cc = "sge" -> FlipSign(a) >= FlipSign(b)
    [] cc = "ult" -> a < b
    [] cc = "ule" -> a <= b
    [] cc = "ugt" -> a > b
    [] cc = "uge" -> a >= b

FloatPatterns == 0 .. 7

FloatIsNaN(p) == p % 4 = 3

\* The number a float pattern that is not a NaN stands for (2 for
\* infinity); both zeros stand for 0.
FloatNum(p) == IF p >= 4 THEN 0 - (p % 4) ELSE p % 4

\* What a comparison of the source language means on floats: the IEEE
\* comparison, where a NaN is unequal to everything and neither below nor
\* above anything.
FloatCmpHolds(cond, p, q) ==
  IF FloatIsNaN(p) \/ FloatIsNaN(q) THEN cond = "NotEqual"
  ELSE CmpHolds(cond, FloatNum(p), FloatNum(q))

\* The relation of two float patterns as the fcmp instruction finds it:
\* unordered, or the order of the sign-and-magnitude patterns.
FloatRel(p, q) ==
  IF p % 4 = 3 \/ q % 4 = 3 THEN "un"
  ELSE IF p % 4 = 0 /\ q % 4 = 0 THEN "eq"
  ELSE IF p = q THEN "eq"
  ELSE IF p >= 4 /\ q < 4 THEN "lt"
  ELSE IF p < 4 /\ q >= 4 THEN "gt"
  ELSE IF p < 4 THEN (IF p < q THEN "lt" ELSE "gt")
  ELSE (IF p > q THEN "lt" ELSE "gt")

\* The fcmp instruction: FloatCC as sets of relations (ne is unordered or
\* less or greater).
fcmp(cc, p, q) ==
  CASE cc = "eq" -> FloatRel(p, q) = "eq"
    [] cc = "ne" -> FloatRel(p, q) \in {"un", "lt", "gt"}
    [] cc = "lt" -> FloatRel(p, q) = "lt"
    [] cc = "le" -> FloatRel(p, q) \in {"lt", "eq"}
    [] cc = "gt" -> FloatRel(p, q) = "gt"
    [] cc = "ge" -> FloatRel(p, q) \in {"gt", "eq"}

\* The instructions of a block of the function, in the order they were
\* emitted.
InsOf(b, blk) == SelectSeq(b.trace, LAMBDA e : e.ev = "ins" /\ e.blk = blk)

\* A function from value (or variable) numbers to what they hold, extended
\* or overwritten at k.
Bind(f, k, v) == [x \in DOMAIN f \cup {k} |-> IF x = k THEN v ELSE f[x]]

NoBindings == [x \in {} |-> 0]

\* The value an instruction without control flow or store defines (the
\* call is the call of malloc, which returns the address run_in.malloc).
InsResult(i, vs, sl, in) ==
  CASE i.op = "iconst" -> i.imm % WordMod
    [] i.op = "f64const" -> i.imm
    [] i.op = "imul" -> (vs[i.args[1]] * vs[i.args[2]]) % WordMod
    [] i.op = "iadd" -> (vs[i.args[1]] + vs[i.args[2]]) % WordMod
    [] i.op = "call" -> in.malloc
    [] i.op = "use_var" -> sl[i.ref]
    [] i.op = "fcmp" -> IF fcmp(i.cc, vs[i.args[1]], vs[i.args[2]]) THEN 1 ELSE 0

ValueOps == {"iconst", "f64const", "imul", "iadd", "call", "use_var", "fcmp"}

BranchOps == {"br_icmp", "brnz", "jump", "fallthrough"}

\* Whether a branch instruction is taken.
BranchTaken(i, vs) ==
  CASE i.op = "br_icmp" -> icmp(i.cc, vs[i.args[1]], vs[i.args[2]])
    [] i.op = "brnz" -> vs[i.args[1]] # 0
    [] i.op = "jump" -> TRUE
    [] i.op = "fallthrough" -> TRUE

\* The functions whose code SpecRun runs.  alloc: one block that assigns
\* ArrayAlloc{len: n, elem: x} to arr2 and returns it.  branch: a block
\* that ends in Branch{v1, v2, cond, then_label: LabelB, else_label:
\* LabelC}, and the two blocks.
RunArgs == <<VN, VM, VX, VY>>

FunAlloc ==
  MkFun(VG, RunArgs,
        <<MkBlock(LabelA, <<StmtAsgn(VArr2, ArrayAlloc(VN, VX))>>, ExitReturn(VArr2))>>, "Word")

FunBranch(v1, v2, cond) ==
  MkFun(VG, RunArgs,
        <<MkBlock(LabelA, <<>>, ExitBranch(v1, v2, cond, LabelB, LabelC)),
          MkBlock(LabelC, <<>>, ExitReturn(VM)),
          MkBlock(LabelB, <<>>, ExitReturn(VN))>>, "Word")

\* The statements of a block from position i, a panic ending the loop.
RECURSIVE codegen_stmts(_, _, _)
codegen_stmts(st, stmts, i) ==
  IF i > Len(stmts) \/ st.panicked THEN st
  ELSE Then(codegen_stmt(st, stmts[i]), LAMBDA s1 : codegen_stmts(s1, stmts, i + 1))

\* One turn of the block loop of codegen_fun.
codegen_block(st, block, l2b) ==
  Then(codegen_stmts([CgSwitch(st, l2b[block.label]) EXCEPT !.block = l2b[block.label]],
                     block.stmts, 1), LAMBDA s1 :
  IF s1.panicked THEN s1 ELSE CgSeal(codegen_exit(s1, block.exit, l2b), s1.block))

\* The block loop of codegen_fun from position i.
RECURSIVE codegen_blocks(_, _, _)
codegen_blocks(st, fun, i) ==
  IF i > Len(fun.blocks) \/ st.panicked THEN st
  ELSE Then(codegen_block(st, fun.blocks[i], label_to_block(fun.blocks)), LAMBDA s1 :
       codegen_blocks(s1, fun, i + 1))

\* The function codegen_fun builds for fun in an Env that binds g.
codegen_fun_body(fun) ==
  codegen_blocks(codegen_fun_begin(add_fun(Env_new, VG, 1), fun, FirstFreshUniq), fun, 1)

(***************************************************************************)
(* State.                                                                  *)
(*   subst_env   the substitution environment (type_check_pgm's local,     *)
(*               passed by &mut to every type_check and unify call);       *)
(*   call        Spec: the unify call a caller has made and not yet taken  *)
(*               the result of: its operands and its result;               *)
(*   pgm         SpecTc: the program (expr) type_check_pgm is called on;   *)
(*   pc          SpecTc: where type_check_pgm stands: "start", "checked"   *)
(*               (type_check returned Ok), "norm" (the top-level type      *)
(*               unified with Unit), "done" (returned), "aborted" (the     *)
(*               process died of stack exhaustion);                        *)
(*   ty_env, scope, NEXT_TYVAR, refs   SpecTc: the type environment, the   *)
(*               lexical scope, the fresh-variable counter, the binders    *)
(*               the Expr::Var nodes of pgm were rewritten to;             *)
(*   top_ty      SpecTc: the type type_check gave the whole program;       *)
(*   result      SpecTc: what type_check_pgm returned: kind "Ok" (with     *)
(*               ty_env as the TypeEnv) or a TypeErr; kind "none" until    *)
(*               it returns.                                               *)
(***************************************************************************)
VARIABLES subst_env, call, pgm, pc, ty_env, scope, NEXT_TYVAR, refs, top_ty, result

(***************************************************************************)
(* State of a codegen run (SpecCg).                                        *)
(*   cg_pc       where codegen stands: "start", "init_env", "funs" (the    *)
(*               loop over funs, then make_main), "block", "stmts",        *)
(*               "finish" (inside codegen_fun), "finalize", "done",        *)
(*               "panicked"; "idle" in the other specifications;           *)
(*   funs, main_id, dump   the arguments of codegen;                       *)
(*   module      the object module;                                        *)
(*   global_env, main_fun_id   what init_module_env returned;              *)
(*   fun_idx, blk_idx, stmt_idx   the positions of the loops over funs,    *)
(*               blocks and stmts;                                         *)
(*   fn_st       the function being emitted: its Env, its builder, the     *)
(*               current target block, and the Uniq counter of the Ctx;    *)
(*   stdout      what was printed;                                         *)
(*   cg_result   how codegen ended: "bytes" (it returned the object        *)
(*               file), "panic", "none" while it runs.                     *)
(***************************************************************************)
VARIABLES cg_pc, funs, main_id, dump, module, global_env, main_fun_id, fun_idx, blk_idx,
          stmt_idx, fn_st, stdout, cg_result

(***************************************************************************)
(* State of a run of emitted code (SpecRun).                               *)
(*   run_pc      "run", "returned"; "idle" in the other specifications;    *)
(*   code        the function, as its builder left it;                     *)
(*   run_in      the inputs: the arguments and what malloc returns;        *)
(*   cur_blk, ip the block and the instruction control is at;              *)
(*   vals        the SSA values computed so far;                           *)
(*   slots       the local slots (Variables) written so far;               *)
(*   stores      the stores done, in order: address and value;             *)
(*   visited     the blocks control entered, in order.                     *)
(***************************************************************************)
VARIABLES run_pc, code, run_in, cur_blk, ip, vals, slots, stores, visited

cg_vars ==
  <<cg_pc, funs, main_id, dump, module, global_env, main_fun_id, fun_idx, blk_idx,
    stmt_idx, fn_st, stdout, cg_result>>

run_vars == <<run_pc, code, run_in, cur_blk, ip, vals, slots, stores, visited>>

vars ==
  <<subst_env, call, pgm, pc, ty_env, scope, NEXT_TYVAR, refs, top_ty, result, cg_vars,
    run_vars>>

tc_vars == <<pgm, pc, ty_env, scope, NEXT_TYVAR, refs, top_ty, result>>

NoCall == [active |-> FALSE, ty1 |-> TUnit, ty2 |-> TUnit, err |-> NoErr]

OkResult == [kind |-> "Ok", t1 |-> TUnit, t2 |-> TUnit, var |-> ""]

StackOverflow == [kind |-> "StackOverflow", t1 |-> TUnit, t2 |-> TUnit, var |-> ""]

\* type_check_pgm not running.
TcIdle ==
  /\ pgm = EUnit
  /\ pc = "idle"
  /\ ty_env = <<>>
  /\ scope = <<>>
  /\ NEXT_TYVAR = 0
  /\ refs = <<>>
  /\ top_ty = TUnit
  /\ result = NoErr

CgIdleState == CgState(Env_new, NewBuilder, FirstFreshUniq, 0)

\* No codegen run: the state of the other specifications.
CgIdle ==
  /\ cg_pc = "idle"
  /\ funs = <<>>
  /\ main_id = VMain
  /\ dump = FALSE
  /\ module = NewModule
  /\ global_env = Env_new
  /\ main_fun_id = 0
  /\ fun_idx = 0
  /\ blk_idx = 0
  /\ stmt_idx = 0
  /\ fn_st = CgIdleState
  /\ stdout = <<>>
  /\ cg_result = "none"

\* No run: the state of the other specifications.
RunIdle ==
  /\ run_pc = "idle"
  /\ code = NewBuilder
  /\ run_in = [kind |-> "none", cond |-> "", args |-> <<>>, malloc |-> 0]
  /\ cur_blk = 0
  /\ ip = 0
  /\ vals = NoBindings
  /\ slots = NoBindings
  /\ stores = <<>>
  /\ visited = <<>>

(***************************************************************************)
(* Spec: unify calls on one substitution environment.                      *)
(***************************************************************************)
Init ==
  /\ subst_env = EmptySubst
  /\ call = NoCall
  /\ TcIdle
  /\ CgIdle
  /\ RunIdle

\* A caller calls unify(&mut subst_env, a, b).
Call ==
  /\ ~call.active
  /\ \E a \in Types, b \in Types :
       LET r == unify(subst_env, a, b) IN
       /\ subst_env' = r.subst
       /\ call' = [active |-> TRUE, ty1 |-> a, ty2 |-> b, err |-> r.err]
  /\ UNCHANGED tc_vars
  /\ UNCHANGED <<cg_vars, run_vars>>

\* The caller takes the result; the operands go out of use.
Return ==
  /\ call.active
  /\ call' = NoCall
  /\ UNCHANGED <<subst_env, tc_vars>>
  /\ UNCHANGED <<cg_vars, run_vars>>

Next == Call \/ Return

Spec == Init /\ [][Next]_vars

(***************************************************************************)
(* SpecTc: type_check_pgm(expr) on a program of Programs.                  *)
(***************************************************************************)
InitTc ==
  /\ \E shape \in Shapes, rhs \in SimpleExprs, body \in SimpleExprs :
       pgm = MkProgram(shape, rhs, body)
  /\ pc = "start"
  /\ subst_env = EmptySubst
  /\ call = NoCall
  /\ ty_env = <<>>
  /\ scope = <<>>
  /\ NEXT_TYVAR = 0
  /\ refs = <<>>
  /\ top_ty = TUnit
  /\ result = NoErr
  /\ CgIdle
  /\ RunIdle

\* type_check has returned st: an error is returned at once.
TypeCheckReturns(st) ==
  /\ subst_env' = st.subst
  /\ ty_env' = st.ty_env
  /\ scope' = st.scope
  /\ NEXT_TYVAR' = st.next
  /\ refs' = st.refs
  /\ IF TcFailed(st)
     THEN pc' = "done" /\ result' = st.err /\ top_ty' = top_ty
     ELSE pc' = "checked" /\ result' = result /\ top_ty' = st.ty

\* The environments are built and type_check runs on the whole program.
TypeCheck ==
  /\ pc = "start"
  /\ TypeCheckReturns(type_check(TcStart(NEXT_TYVAR), pgm))
  /\ UNCHANGED <<call, pgm>>
  /\ UNCHANGED <<cg_vars, run_vars>>

\* The type of the whole program is unified with Unit.
UnifyTop ==
  /\ pc = "checked"
  /\ LET r == unify_top(subst_env, top_ty) IN
     /\ subst_env' = r.subst
     /\ IF r.err # NoErr
        THEN pc' = "done" /\ result' = r.err
        ELSE pc' = "norm" /\ result' = result
  /\ UNCHANGED <<call, pgm, ty_env, scope, NEXT_TYVAR, refs, top_ty>>
  /\ UNCHANGED <<cg_vars, run_vars>>

\* Every entry of ty_env is normalised and ty_env is returned.
Normalize ==
  /\ pc = "norm"
  /\ norm_ty_env_returns(subst_env, ty_env)
  /\ ty_env' = norm_ty_env(subst_env, ty_env)
  /\ pc' = "done"
  /\ result' = OkResult
  /\ UNCHANGED <<subst_env, call, pgm, scope, NEXT_TYVAR, refs, top_ty>>
  /\ UNCHANGED <<cg_vars, run_vars>>

\* A norm_ty call of the loop recurses without end: the stack is exhausted
\* and the process aborted, or, where the build turns the tail call into a
\* jump, the call spins for ever.
NormalizeDiverges ==
  /\ pc = "norm"
  /\ ~norm_ty_env_returns(subst_env, ty_env)
  /\ \/ /\ pc' = "aborted"
        /\ result' = StackOverflow
        /\ UNCHANGED <<subst_env, call, pgm, ty_env, scope, NEXT_TYVAR, refs, top_ty>>
     \/ UNCHANGED vars
  /\ UNCHANGED <<cg_vars, run_vars>>

NextTc == TypeCheck \/ UnifyTop \/ Normalize \/ NormalizeDiverges

SpecTc == InitTc /\ [][NextTc]_vars

(***************************************************************************)
(* Helpers of the properties of Spec.                                      *)
(***************************************************************************)
\* The type variables written in ty, at any depth (no dereferencing).
RECURSIVE TyVarsOf(_)
TyVarsOf(ty) ==
  IF ty.tag = "Var"
  THEN {ty.var}
  ELSE UNION ({TyVarsOf(ty.args[i]) : i \in 1 .. Len(ty.args)}
                \cup {TyVarsOf(ty.ret[i]) : i \in 1 .. Len(ty.ret)})

\* The variables one binding step away from the variables of vs.
BindingStep(subst, vs) == UNION {TyVarsOf(subst[v]) : v \in vs \cap DOMAIN subst}

\* The variables reachable from vs in at most n binding steps.
RECURSIVE ReachableIn(_, _, _)
ReachableIn(subst, vs, n) ==
  IF n = 0 THEN vs ELSE ReachableIn(subst, vs \cup BindingStep(subst, vs), n - 1)

\* The variables reached from v by following one or more bindings through
\* Fun / Tuple / Array constructors.
ReachedFrom(subst, v) ==
  ReachableIn(subst, BindingStep(subst, {v}), Cardinality(DOMAIN subst))

Acyclic(subst) == \A v \in DOMAIN subst : v \notin ReachedFrom(subst, v)

IsCompound(ty) == ty.tag \in {"Fun", "Tuple", "Array"}

CallOk == call.active /\ call.err = NoErr

(***************************************************************************)
(* C4 as stated: after a successful unify(a, b), deref(a) and deref(b)     *)
(* are structurally equal types.                                           *)
(***************************************************************************)
C4_DerefEqual ==
  CallOk => deref_ty(subst_env, call.ty1) = deref_ty(subst_env, call.ty2)

(***************************************************************************)
(* C4 amended: after a successful unify(a, b), deref(a) and deref(b) have  *)
(* the same constructor and the same number of components, and they are    *)
(* structurally equal unless they are compound (Fun, Tuple, Array) types;  *)
(* in particular every variable of a chain unified with Int derefs to Int. *)
(***************************************************************************)
C4_DerefAgree ==
  CallOk =>
    LET d1 == deref_ty(subst_env, call.ty1)
        d2 == deref_ty(subst_env, call.ty2)
    IN /\ d1.tag = d2.tag
       /\ Len(d1.args) = Len(d2.args)
       /\ (~IsCompound(d1) \/ ~IsCompound(d2)) => d1 = d2

\* A chain: variable 0 was unified with variable 1 earlier, unify(Var 1, Int)
\* has just succeeded, and both variables deref to Int.
C4_Witness ==
  /\ CallOk
  /\ call.ty1 = TVar(1)
  /\ call.ty2 = TInt
  /\ 0 \in DOMAIN subst_env
  /\ subst_env[0] = TVar(1)
  /\ deref_ty(subst_env, TVar(0)) = TInt
  /\ deref_ty(subst_env, TVar(1)) = TInt

(***************************************************************************)
(* C5 as stated: if occurs_check(v, t) is true then unify(Var v, t)        *)
(* returns InfiniteType and inserts no binding.                            *)
(***************************************************************************)
C5_OccursImpliesInfinite ==
  [][(call'.active /\ call'.ty1.tag = "Var"
        /\ occurs_check(subst_env, call'.ty1.var, call'.ty2))
       => (call'.err.kind = "InfiniteType" /\ subst_env' = subst_env)]_vars

(***************************************************************************)
(* C5 amended: if occurs_check(v, t) is true and t does not dereference    *)
(* to Var v itself, then unify(Var v, t) returns InfiniteType and inserts  *)
(* no binding (when t dereferences to Var v, unify returns Ok).            *)
(***************************************************************************)
C5_OccursInCompoundImpliesInfinite ==
  [][(call'.active /\ call'.ty1.tag = "Var"
        /\ occurs_check(subst_env, call'.ty1.var, call'.ty2))
       => IF deref_ty(subst_env, call'.ty2) = call'.ty1
          THEN call'.err = NoErr /\ subst_env' = subst_env
          ELSE call'.err.kind = "InfiniteType" /\ subst_env' = subst_env]_vars

\* unify(Var v, t) has just failed with InfiniteType on a t that reaches v
\* only through an earlier binding (a failed call leaves subst_env as it was).
C5_Witness ==
  /\ call.active
  /\ call.ty1.tag = "Var"
  /\ call.err.kind = "InfiniteType"
  /\ occurs_check(subst_env, call.ty1.var, call.ty2)
  /\ call.ty1.var \notin TyVarsOf(call.ty2)

(***************************************************************************)
(* C6: unify(t, t) returns Ok and leaves the substitution map as it was.   *)
(***************************************************************************)
C6_UnifySameIsNoop ==
  [][(call'.active /\ call'.ty1 = call'.ty2)
       => (call'.err = NoErr /\ subst_env' = subst_env)]_vars

\* unify(t, t) has returned Ok on a compound t with a bound variable in it.
C6_Witness ==
  /\ CallOk
  /\ call.ty1 = call.ty2
  /\ IsCompound(call.ty1)
  /\ TyVarsOf(call.ty1) \cap DOMAIN subst_env # {}

(***************************************************************************)
(* C7: after any sequence of unify calls, successful or failed, the        *)
(* substitution is acyclic: following bindings from a type variable,       *)
(* through Fun / Tuple / Array constructors, never reaches that variable.  *)
(***************************************************************************)
C7_Acyclic == Acyclic(subst_env)

\* A binding that would close a cycle through an earlier binding has just
\* been refused: unify(Var v, Array(Var w)) with w bound to a type over v.
C7_Witness ==
  /\ call.active
  /\ call.err.kind = "InfiniteType"
  /\ call.ty1.tag = "Var"
  /\ call.ty2.tag = "Array"
  /\ call.ty2.args[1].tag = "Var"
  /\ call.ty2.args[1].var # call.ty1.var
  /\ call.ty2.args[1].var \in DOMAIN subst_env
  /\ call.ty1.var \in TyVarsOf(subst_env[call.ty2.args[1].var])

(***************************************************************************)
(* C8: the substitution grows monotonically: a binding v |-> t, once       *)
(* made, is never removed and never replaced by a different type.          *)
(***************************************************************************)
C8_Monotonic ==
  [][\A v \in DOMAIN subst_env :
       v \in DOMAIN subst_env' /\ subst_env'[v] = subst_env[v]]_vars

\* A successful unify call on an already bound variable and a different
\* type has added a binding for another variable and kept the old one.
C8_Witness ==
  /\ CallOk
  /\ call.ty1.tag = "Var"
  /\ call.ty1.var \in DOMAIN subst_env
  /\ subst_env[call.ty1.var] # call.ty2
  /\ call.ty2.tag = "Var"
  /\ call.ty2.var \in DOMAIN subst_env
  /\ subst_env[call.ty2.var] = subst_env[call.ty1.var]

(***************************************************************************)
(* Helpers of the properties of SpecTc.                                    *)
(***************************************************************************)
\* No Type::Var node occurs anywhere inside ty.
Ground(ty) == TyVarsOf(ty) = {}

\* type_check_pgm has returned Ok(ty_env).
ReturnedOk == pc = "done" /\ result = OkResult

\* The type variables without a binding that ty leads to, through bindings
\* and through Fun / Tuple / Array constructors.
RECURSIVE UnboundTyVars(_, _)
UnboundTyVars(subst, ty) ==
  IF ty.tag = "Var"
  THEN IF ty.var \in DOMAIN subst THEN UnboundTyVars(subst, subst[ty.var]) ELSE {ty.var}
  ELSE UNION ({UnboundTyVars(subst, ty.args[i]) : i \in 1 .. Len(ty.args)}
                \cup {UnboundTyVars(subst, ty.ret[i]) : i \in 1 .. Len(ty.ret)})

\* Some entry of ty_env leads to a type variable without a binding.
SomeEntryUnbound ==
  \E i \in 1 .. Len(ty_env) : UnboundTyVars(subst_env, ty_env[i].ty) # {}

\* ty with every bound variable replaced by its binding and every variable
\* without a binding replaced by Unit.
RECURSIVE NormToUnit(_, _)
NormToUnit(subst, ty) ==
  IF ty.tag = "Var"
  THEN IF ty.var \in DOMAIN subst THEN NormToUnit(subst, subst[ty.var]) ELSE TUnit
  ELSE [ty EXCEPT !.args = [i \in 1 .. Len(ty.args) |-> NormToUnit(subst, ty.args[i])],
                  !.ret = [i \in 1 .. Len(ty.ret) |-> NormToUnit(subst, ty.ret[i])]]

\* The display names of the built-ins.
BuiltinNames == {mk_type_env[i].var.name : i \in 1 .. Len(mk_type_env)}

\* The identifiers e references outside the scope of any binder of e and
\* outside bound: Let and LetTuple bind in their body, LetRec binds the
\* function in rhs and body and the arguments in rhs.
RECURSIVE FreeIdents(_, _)
FreeIdents(e, bound) ==
  LET names == {e.bndrs[i].name : i \in 1 .. Len(e.bndrs)} IN
  IF e.tag = "Var" THEN {e.bndr.name} \ bound
  ELSE IF e.tag = "Let"
    THEN FreeIdents(e.args[1], bound) \cup FreeIdents(e.args[2], bound \cup {e.bndr.name})
  ELSE IF e.tag = "LetTuple"
    THEN FreeIdents(e.args[1], bound) \cup FreeIdents(e.args[2], bound \cup names)
  ELSE IF e.tag = "LetRec"
    THEN FreeIdents(e.args[1], bound \cup {e.bndr.name} \cup names)
           \cup FreeIdents(e.args[2], bound \cup {e.bndr.name})
  ELSE UNION {FreeIdents(e.args[i], bound) : i \in 1 .. Len(e.args)}

\* The identifiers pgm references that are in no enclosing scope frame and
\* are no built-in.
UnboundIdents == FreeIdents(pgm, BuiltinNames)

(***************************************************************************)
(* C1: when type_check_pgm returns Ok, every type of the returned TypeEnv  *)
(* is ground: no Var node occurs in it, inside Fun, Tuple and Array types  *)
(* included.                                                               *)
(***************************************************************************)
C1_ReturnedTypeEnvGround ==
  ReturnedOk => \A i \in 1 .. Len(ty_env) : Ground(ty_env[i].ty)

\* type_check_pgm has returned Ok with a function entry that type_check
\* had left with type variables in it.
C1_Witness ==
  /\ ReturnedOk
  /\ \E i \in 1 .. Len(ty_env) :
       /\ ty_env[i].var = BndrF
       /\ ty_env[i].ty.tag = "Fun"
       /\ ~Ground(type_check(TcStart(0), pgm).ty_env[i].ty)

(***************************************************************************)
(* C2 as stated: type_check_pgm terminates, with a TypeEnv or one of       *)
(* UnifyError, InfiniteType, UnboundVar; the normalisation pass returns    *)
(* also when a type variable is left without a binding.                    *)
(***************************************************************************)
C2_TerminatesWithTypeEnvOrTypeErr ==
  /\ pc # "aborted"
  /\ pc = "done" => result.kind \in {"Ok", "UnifyError", "InfiniteType", "UnboundVar"}
  /\ pc = "norm" => norm_ty_env_returns(subst_env, ty_env)

(***************************************************************************)
(* C3 as stated: when inference and the unification of the top-level type  *)
(* with Unit have succeeded and an entry of ty_env leads to a type         *)
(* variable without a binding, type_check_pgm returns the TypeEnv with     *)
(* that variable replaced by Unit.                                         *)
(***************************************************************************)
C3_UnboundBecomesUnit ==
  [][(pc = "norm" /\ SomeEntryUnbound)
       => /\ pc' = "done"
          /\ result' = OkResult
          /\ ty_env' = [i \in 1 .. Len(ty_env) |->
                          [var |-> ty_env[i].var,
                           ty |-> NormToUnit(subst_env, ty_env[i].ty)]]]_vars

C10_NonUnitTopRejected ==
  [][(pc = "checked" /\ deref_ty(subst_env, top_ty).tag \notin {"Unit", "Var"})
       => (pc' = "done" /\ result' = UnifyError(TUnit, deref_ty(subst_env, top_ty)))]_vars

\* A program whose type is a variable bound to a non-Unit type has been
\* rejected with UnifyError(Unit, that type).
C10_Witness ==
  /\ pc = "done"
  /\ top_ty.tag = "Var"
  /\ deref_ty(subst_env, top_ty).tag \notin {"Unit", "Var"}
  /\ result = UnifyError(TUnit, deref_ty(subst_env, top_ty))

(***************************************************************************)
(* Helpers of C11.                                                         *)
(***************************************************************************)
\* The numbers of arguments the applications of the identifier name are
\* made with inside e (e binds nothing).
RECURSIVE AppArities(_, _)
AppArities(e, name) ==
  (IF e.tag = "App" /\ e.args[1].tag = "Var" /\ e.args[1].bndr.name = name
   THEN {Len(e.args) - 1} ELSE {})
    \cup UNION {AppArities(e.args[i], name) : i \in 1 .. Len(e.args)}

\* The names of the arguments of the LetRec e.
ArgNamesOf(e) == {e.bndrs[i].name : i \in 1 .. Len(e.bndrs)}

\* The LetRec e applies its function, in rhs (where no argument has the
\* function's name) or in body, to a number of arguments other than its own.
AppliedWithWrongArity(e) ==
  /\ e.tag = "LetRec"
  /\ \/ /\ e.bndr.name \notin ArgNamesOf(e)
        /\ AppArities(e.args[1], e.bndr.name) \ {Len(e.bndrs)} # {}
     \/ AppArities(e.args[2], e.bndr.name) \ {Len(e.bndrs)} # {}

\* e is an application of the identifier name to literals, with a number of
\* arguments other than n.
IsWrongArityCall(e, name, n) ==
  /\ e.tag = "App"
  /\ e.args[1] = EVar(name)
  /\ Len(e.args) - 1 # n
  /\ \A i \in 2 .. Len(e.args) : e.args[i] \in {EUnit, EInt}

\* The wrong-arity application that is the first thing to fail in the
\* LetRec e, as a one-element sequence: rhs itself, where the function is
\* not shadowed by an argument, or body itself after a literal rhs; <<>> if
\* there is none.
FirstFailingCall(e) ==
  IF e.tag # "LetRec" THEN <<>>
  ELSE IF e.bndr.name \notin ArgNamesOf(e)
          /\ IsWrongArityCall(e.args[1], e.bndr.name, Len(e.bndrs))
    THEN <<e.args[1]>>
  ELSE IF e.args[1] \in {EUnit, EInt, EBool, EFloat}
          /\ IsWrongArityCall(e.args[2], e.bndr.name, Len(e.bndrs))
    THEN <<e.args[2]>>
  ELSE <<>>

\* The type type_check gives a literal.
LitType(e) ==
  IF e = EUnit THEN TUnit ELSE IF e = EInt THEN TInt
  ELSE IF e = EBool THEN TBool ELSE TFloat

(***************************************************************************)
(* C11 as stated: a recursive function of n arguments applied, in its rhs  *)
(* or in its body, to a number of arguments other than n is rejected with  *)
(* UnifyError.                                                             *)
(***************************************************************************)
C11_WrongArityGivesUnifyError ==
  (pc # "start" /\ AppliedWithWrongArity(pgm))
    => (pc = "done" /\ result.kind = "UnifyError")

(***************************************************************************)
(* C11 amended: a recursive function of n arguments applied, in its rhs or *)
(* in its body, to m # n arguments is rejected by type_check; when the     *)
(* application is the first thing to fail (its arguments are literals and  *)
(* nothing before it fails) the error is UnifyError on the Fun type of the *)
(* m argument types and the Fun type of the function, raised before any    *)
(* argument is unified (no argument type variable of the function gets a   *)
(* binding); otherwise the error is that of the earlier failure, which may *)
(* be UnboundVar or InfiniteType.                                          *)
(***************************************************************************)
C11_WrongArityRejected ==
  (pc # "start" /\ AppliedWithWrongArity(pgm)) =>
    /\ pc = "done"
    /\ result.kind \in {"UnifyError", "UnboundVar", "InfiniteType"}
    /\ FirstFailingCall(pgm) # <<>> =>
         LET app == FirstFailingCall(pgm)[1]
             n == Len(pgm.bndrs)
         IN /\ result = UnifyError(
                          TFun([i \in 1 .. Len(app.args) - 1 |-> LitType(app.args[i + 1])],
                               TVar(n + 1)),
                          TFun([i \in 1 .. n |-> TVar(i - 1)], TVar(n)))
            /\ \A v \in 0 .. n - 1 : v \notin DOMAIN subst_env

\* `let rec f a = () in f 1 2` has been rejected: the application in body
\* failed with UnifyError on Fun types of two and of one argument.
C11_Witness ==
  /\ pc = "done"
  /\ pgm.tag = "LetRec"
  /\ Len(pgm.bndrs) = 1
  /\ pgm.args[1] = EUnit
  /\ IsWrongArityCall(pgm.args[2], pgm.bndr.name, 1)
  /\ result.kind = "UnifyError"
  /\ Len(result.t1.args) = 2
  /\ Len(result.t2.args) = 1

(***************************************************************************)
(* Code generation as a state machine (SpecCg): one run of codegen(ctx,    *)
(* funs, main_id, dump).                                                   *)
(***************************************************************************)
InitCg ==
  /\ subst_env = EmptySubst
  /\ call = NoCall
  /\ TcIdle
  /\ RunIdle
  /\ cg_pc = "start"
  /\ \E layout \in Layouts, shape \in CfgShapes, stmts \in StmtSeqs,
        rest \in {Allocs(0), Allocs(1)}, v1 \in {VN, VX} :
       funs = MkFuns(layout, FunG(GBlocks(shape, stmts, rest, v1, "LessThan")))
  /\ main_id = VMain
  /\ dump \in BOOLEAN
  /\ module = NewModule
  /\ global_env = Env_new
  /\ main_fun_id = 0
  /\ fun_idx = 0
  /\ blk_idx = 0
  /\ stmt_idx = 0
  /\ fn_st = CgIdleState
  /\ stdout = <<>>
  /\ cg_result = "none"

\* A panic unwinds out of codegen.
CgPanics ==
  /\ cg_pc' = "panicked"
  /\ cg_result' = "panic"

\* `let malloc_id = declare_malloc(&mut module)`
DeclareMalloc ==
  /\ cg_pc = "start"
  /\ module' = declare_malloc(module)
  /\ cg_pc' = "init_env"
  /\ UNCHANGED <<funs, main_id, dump, global_env, main_fun_id, fun_idx, blk_idx, stmt_idx,
                 fn_st, stdout, cg_result>>
  /\ UNCHANGED <<subst_env, call, tc_vars, run_vars>>

\* What the return (or the panic) of init_module_env does to the state.
InitModuleEnvReturns(r) ==
  /\ module' = r.module
  /\ IF r.panicked
     THEN /\ CgPanics
          /\ UNCHANGED <<global_env, main_fun_id, fun_idx>>
     ELSE /\ global_env' = r.env
          /\ main_fun_id' = r.main_fun_id[1]
          /\ fun_idx' = 1
          /\ cg_pc' = "funs"
          /\ UNCHANGED cg_result

\* `let (env, main_fun_id) = init_module_env(ctx, &mut module, funs, main_id)`
InitModuleEnv ==
  /\ cg_pc = "init_env"
  /\ InitModuleEnvReturns(init_module_env(module, funs, main_id))
  /\ UNCHANGED <<funs, main_id, dump, blk_idx, stmt_idx, fn_st, stdout>>
  /\ UNCHANGED <<subst_env, call, tc_vars, run_vars>>

\* codegen_fun on funs[fun_idx], up to the loop over its blocks.
BeginFun ==
  /\ cg_pc = "funs"
  /\ fun_idx <= Len(funs)
  /\ fn_st' = codegen_fun_begin(global_env, funs[fun_idx], fn_st.uniq)
  /\ blk_idx' = 1
  /\ cg_pc' = "block"
  /\ UNCHANGED <<funs, main_id, dump, module, global_env, main_fun_id, fun_idx, stmt_idx,
                 stdout, cg_result>>
  /\ UNCHANGED <<subst_env, call, tc_vars, run_vars>>

\* The IR block the block loop is at.
CurBlock == funs[fun_idx].blocks[blk_idx]

CurLabelToBlock == label_to_block(funs[fun_idx].blocks)

\* The head of the block loop: cl_block looked up and switched to.
EnterBlock ==
  /\ cg_pc = "block"
  /\ fn_st' = [CgSwitch(fn_st, CurLabelToBlock[CurBlock.label])
                 EXCEPT !.block = CurLabelToBlock[CurBlock.label]]
  /\ stmt_idx' = 1
  /\ cg_pc' = "stmts"
  /\ UNCHANGED <<funs, main_id, dump, module, global_env, main_fun_id, fun_idx, blk_idx,
                 stdout, cg_result>>
  /\ UNCHANGED <<subst_env, call, tc_vars, run_vars>>

\* What the state a statement left does to the run.
StmtReturns(s) ==
  /\ fn_st' = s
  /\ IF s.panicked
     THEN CgPanics /\ UNCHANGED stmt_idx
     ELSE stmt_idx' = stmt_idx + 1 /\ UNCHANGED <<cg_pc, cg_result>>

\* One statement of the current block.
EmitStmt ==
  /\ cg_pc = "stmts"
  /\ stmt_idx <= Len(CurBlock.stmts)
  /\ StmtReturns(codegen_stmt(fn_st, CurBlock.stmts[stmt_idx]))
  /\ UNCHANGED <<funs, main_id, dump, module, global_env, main_fun_id, fun_idx, blk_idx,
                 stdout>>
  /\ UNCHANGED <<subst_env, call, tc_vars, run_vars>>

\* The blocks sealed so far in a builder.
SealedBlocks(b) == {b.trace[i].blk : i \in {j \in 1 .. Len(b.trace) : b.trace[j].ev = "seal"}}

\* The target blocks of an exit.
ExitTargets(exit, l2b) ==
  IF exit.tag = "Return" THEN {}
  ELSE IF exit.tag = "Jump" THEN {l2b[exit.then_label]}
  ELSE {l2b[exit.then_label], l2b[exit.else_label]}

\* The exit of the current block adds a predecessor to a block that is
\* already sealed.
ExitIntoSealed ==
  ExitTargets(CurBlock.exit, CurLabelToBlock) \cap SealedBlocks(fn_st.b) # {}

\* The exit of the current block and `builder.seal_block(cl_block)`; then
\* the next block, or the end of the loop.
EmitExit ==
  /\ cg_pc = "stmts"
  /\ stmt_idx > Len(CurBlock.stmts)
  /\ fn_st' = CgSeal(codegen_exit(fn_st, CurBlock.exit, CurLabelToBlock), fn_st.block)
  /\ IF blk_idx < Len(funs[fun_idx].blocks)
     THEN blk_idx' = blk_idx + 1 /\ cg_pc' = "block"
     ELSE UNCHANGED blk_idx /\ cg_pc' = "finish"
  /\ UNCHANGED <<funs, main_id, dump, module, global_env, main_fun_id, fun_idx, stmt_idx,
                 stdout, cg_result>>
  /\ UNCHANGED <<subst_env, call, tc_vars, run_vars>>

\* The exit of the current block branches to a sealed block: the builder
\* (an external library) checks that with a debug assertion, so a build
\* with debug assertions panics where EmitExit goes on.
EmitExitIntoSealedPanics ==
  /\ cg_pc = "stmts"
  /\ stmt_idx > Len(CurBlock.stmts)
  /\ ExitIntoSealed
  /\ fn_st' = CgPanic(codegen_exit(fn_st, CurBlock.exit, CurLabelToBlock),
                      "predecessor added to a sealed block")
  /\ CgPanics
  /\ UNCHANGED <<funs, main_id, dump, module, global_env, main_fun_id, fun_idx, blk_idx,
                 stmt_idx, stdout>>
  /\ UNCHANGED <<subst_env, call, tc_vars, run_vars>>

\* What the function printed: the function when dump is set, the errors
\* when the verifier found some.
Printed(out, what, verified) ==
  out \o (IF dump THEN <<[kind |-> "func", fun |-> what]>> ELSE <<>>)
      \o (IF verified THEN <<>> ELSE <<[kind |-> "errors", fun |-> what]>>)

\* The end of codegen_fun: builder.finalize(), verify_function, the
\* printing, module.define_function(..).unwrap().  The verdict of the
\* verifier (an external library) is not computed here: both verdicts are
\* possible for any function.
FinishFun ==
  /\ cg_pc = "finish"
  /\ \E verified \in BOOLEAN : stdout' = Printed(stdout, fun_idx, verified)
  /\ module' = define_function(module, get_fun(global_env, funs[fun_idx].name)[1],
                               fn_st.b.trace)
  /\ fun_idx' = fun_idx + 1
  /\ cg_pc' = "funs"
  /\ UNCHANGED <<funs, main_id, dump, global_env, main_fun_id, blk_idx, stmt_idx, fn_st,
                 cg_result>>
  /\ UNCHANGED <<subst_env, call, tc_vars, run_vars>>

\* The end of codegen_fun for a function the verifier rejected, when
\* define_function (which compiles the function) returns an Err: unwrap
\* panics.
FinishFunDefineFails ==
  /\ cg_pc = "finish"
  /\ stdout' = Printed(stdout, fun_idx, FALSE)
  /\ CgPanics
  /\ UNCHANGED <<funs, main_id, dump, module, global_env, main_fun_id, fun_idx, blk_idx,
                 stmt_idx, fn_st>>
  /\ UNCHANGED <<subst_env, call, tc_vars, run_vars>>

\* The entry of stdout for the main stub.
MainStub == 0

\* make_main(&mut module, .., main_fun_id, dump), after the last function.
MakeMain ==
  /\ cg_pc = "funs"
  /\ fun_idx > Len(funs)
  /\ fn_st' = [fn_st EXCEPT !.b = make_main_body(main_fun_id), !.block = 1]
  /\ \E verified \in BOOLEAN : stdout' = Printed(stdout, MainStub, verified)
  /\ module' = define_function(make_main_declare(module), module.nfuncs,
                               make_main_body(main_fun_id).trace)
  /\ cg_pc' = "finalize"
  /\ UNCHANGED <<funs, main_id, dump, global_env, main_fun_id, fun_idx, blk_idx, stmt_idx,
                 cg_result>>
  /\ UNCHANGED <<subst_env, call, tc_vars, run_vars>>

\* make_main when the verifier rejected the stub and define_function
\* returns an Err.
MakeMainDefineFails ==
  /\ cg_pc = "funs"
  /\ fun_idx > Len(funs)
  /\ fn_st' = [fn_st EXCEPT !.b = make_main_body(main_fun_id), !.block = 1]
  /\ stdout' = Printed(stdout, MainStub, FALSE)
  /\ module' = make_main_declare(module)
  /\ CgPanics
  /\ UNCHANGED <<funs, main_id, dump, global_env, main_fun_id, fun_idx, blk_idx, stmt_idx>>
  /\ UNCHANGED <<subst_env, call, tc_vars, run_vars>>

\* module.finalize_definitions(); module.finish(); object.emit(): codegen
\* returns the bytes of the object file.
Finish ==
  /\ cg_pc = "finalize"
  /\ module' = finalize_definitions(module)
  /\ cg_pc' = "done"
  /\ cg_result' = "bytes"
  /\ UNCHANGED <<funs, main_id, dump, global_env, main_fun_id, fun_idx, blk_idx, stmt_idx,
                 fn_st, stdout>>
  /\ UNCHANGED <<subst_env, call, tc_vars, run_vars>>

NextCg ==
  \/ DeclareMalloc
  \/ InitModuleEnv
  \/ BeginFun
  \/ EnterBlock
  \/ EmitStmt
  \/ EmitExit
  \/ EmitExitIntoSealedPanics
  \/ FinishFun
  \/ FinishFunDefineFails
  \/ MakeMain
  \/ MakeMainDefineFails
  \/ Finish

SpecCg == InitCg /\ [][NextCg]_vars

\* Sample words: the extremes of both signs.
WordSamples == {0, 1, Pow2(WordBits - 1) - 1, Pow2(WordBits - 1), WordMod - 1}

\* The inputs of a run: the function (alloc or branch, with the condition
\* and the operand type of the branch), the arguments n, m, x, y the
\* function is called with, the address malloc returns.
RunInputs(kind, cond, n, m, x, y, a) ==
  [kind |-> kind, cond |-> cond, args |-> <<n, m, x, y>>, malloc |-> a]

InitRun ==
  /\ subst_env = EmptySubst
  /\ call = NoCall
  /\ TcIdle
  /\ CgIdle
  /\ run_pc = "run"
  /\ \/ /\ \E n \in Words, a \in {w \in Words : w % WORD_SIZE = 0} :
             run_in = RunInputs("alloc", "", n, 0, 5, 0, a)
        /\ code = codegen_fun_body(FunAlloc).b
     \/ \E cond \in Cmps, n \in WordSamples, m \in WordSamples :
          /\ run_in = RunInputs("word", cond, n, m, 0, 0, 0)
          /\ code = codegen_fun_body(FunBranch(VN, VM, cond)).b
     \/ \E cond \in Cmps, x \in FloatPatterns, y \in FloatPatterns :
          /\ run_in = RunInputs("float", cond, 0, 0, x, y, 0)
          /\ code = codegen_fun_body(FunBranch(VX, VY, cond)).b
  /\ cur_blk = 1
  /\ ip = 1
  /\ vals = NoBindings
  /\ slots = NoBindings
  /\ stores = <<>>
  /\ visited = <<1>>

\* The instruction the machine is at.
CurIns == InsOf(code, cur_blk)[ip].ins

Running == run_pc = "run" /\ ip <= Len(InsOf(code, cur_blk))

\* The parameters of the entry block take the arguments of the call.
StepParams ==
  /\ Running
  /\ CurIns.op = "block_params"
  /\ vals' = [k \in 1 .. Len(CurIns.args) |-> run_in.args[k]]
  /\ ip' = ip + 1
  /\ UNCHANGED <<run_pc, code, run_in, cur_blk, slots, stores, visited>>
  /\ UNCHANGED <<subst_env, call, tc_vars, cg_vars>>

\* An instruction that defines a value.
StepValue ==
  /\ Running
  /\ CurIns.op \in ValueOps
  /\ vals' = Bind(vals, CurIns.res, InsResult(CurIns, vals, slots, run_in))
  /\ ip' = ip + 1
  /\ UNCHANGED <<run_pc, code, run_in, cur_blk, slots, stores, visited>>
  /\ UNCHANGED <<subst_env, call, tc_vars, cg_vars>>

\* declare_var and def_var of a Variable: def_var writes the local slot.
StepVar ==
  /\ Running
  /\ CurIns.op \in {"declare_var", "def_var"}
  /\ slots' = IF CurIns.op = "def_var" THEN Bind(slots, CurIns.ref, vals[CurIns.args[1]])
              ELSE slots
  /\ ip' = ip + 1
  /\ UNCHANGED <<run_pc, code, run_in, cur_blk, vals, stores, visited>>
  /\ UNCHANGED <<subst_env, call, tc_vars, cg_vars>>

\* store value, address, offset
StepStore ==
  /\ Running
  /\ CurIns.op = "store"
  /\ stores' = Append(stores, [addr |-> (vals[CurIns.args[2]] + CurIns.imm) % WordMod,
                               val |-> vals[CurIns.args[1]]])
  /\ ip' = ip + 1
  /\ UNCHANGED <<run_pc, code, run_in, cur_blk, vals, slots, visited>>
  /\ UNCHANGED <<subst_env, call, tc_vars, cg_vars>>

\* A branch: taken, control goes to the first instruction of its block;
\* not taken, to the next instruction.
StepBranch ==
  /\ Running
  /\ CurIns.op \in BranchOps
  /\ IF BranchTaken(CurIns, vals)
     THEN /\ cur_blk' = CurIns.blk
          /\ ip' = 1
          /\ visited' = Append(visited, CurIns.blk)
     ELSE /\ ip' = ip + 1
          /\ UNCHANGED <<cur_blk, visited>>
  /\ UNCHANGED <<run_pc, code, run_in, vals, slots, stores>>
  /\ UNCHANGED <<subst_env, call, tc_vars, cg_vars>>

\* return
StepReturn ==
  /\ Running
  /\ CurIns.op = "return"
  /\ run_pc' = "returned"
  /\ UNCHANGED <<code, run_in, cur_blk, ip, vals, slots, stores, visited>>
  /\ UNCHANGED <<subst_env, call, tc_vars, cg_vars>>

NextRun == StepParams \/ StepValue \/ StepVar \/ StepStore \/ StepBranch \/ StepReturn

SpecRun == InitRun /\ [][NextRun]_vars

(***************************************************************************)
(* Properties of SpecCg.                                                   *)
(***************************************************************************)
\* The trace of the function under construction.
FnTrace == fn_st.b.trace

\* Event j of the trace is a jump or branch into block blk.
IsEdgeInto(tr, j, blk) ==
  tr[j].ev = "ins" /\ tr[j].ins.op \in BranchOps /\ tr[j].ins.blk = blk

\* Event i of the trace seals block blk.
IsSealOf(tr, i, blk) == tr[i].ev = "seal" /\ tr[i].blk = blk

\* C12: whenever codegen seals a target block, every jump or branch edge
\* into that block has already been emitted, whatever the order of the
\* blocks: no edge into a block is emitted after the block was sealed.
C12_SealedAfterEveryEdge ==
  \A i \in 1 .. Len(FnTrace), j \in 1 .. Len(FnTrace) :
    (i < j /\ FnTrace[i].ev = "seal") => ~IsEdgeInto(FnTrace, j, FnTrace[i].blk)

\* How many times block blk was sealed.
SealCount(tr, blk) == Cardinality({i \in 1 .. Len(tr) : IsSealOf(tr, i, blk)})

\* The ArrayAlloc statements of a function.
NumAllocsOf(fun) ==
  Cardinality({<<k, i>> \in (1 .. Len(fun.blocks)) \X (1 .. MaxAllocs + 2) :
                 /\ i <= Len(fun.blocks[k].stmts)
                 /\ fun.blocks[k].stmts[i].rhs.tag = "ArrayAlloc"})

\* The emission of the function at hand is over: codegen_fun has left its
\* block loop, or make_main has built the stub.
FunEmitted == cg_pc = "finish"

StubEmitted == cg_pc = "finalize"

\* C13: at the end of emitting a function, every target block created for
\* it (one per IR block and three per ArrayAlloc statement; one for the
\* main stub) has been sealed exactly once.
C13_EveryBlockSealedOnce ==
  /\ FunEmitted =>
       /\ fn_st.b.nblocks = Len(funs[fun_idx].blocks) + 3 * NumAllocsOf(funs[fun_idx])
       /\ \A blk \in 1 .. fn_st.b.nblocks : SealCount(FnTrace, blk) = 1
  /\ StubEmitted =>
       /\ fn_st.b.nblocks = 1
       /\ SealCount(FnTrace, 1) = 1

\* A function of three blocks with ArrayAllocs in each of them, the entry
\* block holding MaxAllocs + 1 of them, has been emitted.
C13_Witness ==
  /\ FunEmitted
  /\ Len(funs[fun_idx].blocks) = 3
  /\ NumAllocsOf(funs[fun_idx]) = MaxAllocs + 3
  /\ fn_st.b.nblocks = 3 + 3 * (MaxAllocs + 3)

(***************************************************************************)
(* Properties of SpecRun.                                                  *)
(***************************************************************************)
\* The run of the function FunAlloc: its len, its elem, what malloc
\* returned.
AllocRun == run_in.kind = "alloc"

AllocLen == run_in.args[1]

AllocElem == run_in.args[3]

AllocAddr == run_in.malloc

\* The blocks of the code of FunAlloc: the IR block, then the header, the
\* body and the cont of its ArrayAlloc.
AllocHeader == Len(FunAlloc.blocks) + 1

AllocBody == Len(FunAlloc.blocks) + 2

AllocCont == Len(FunAlloc.blocks) + 3

\* The stores of k turns of the loop: elem at a, a + 8, .., a + 8(k - 1).
AllocStores(k) ==
  [i \in 1 .. k |-> [addr |-> (AllocAddr + WORD_SIZE * (i - 1)) % WordMod,
                     val |-> AllocElem]]

\* The blocks control enters when the loop takes k turns and leaves.
RECURSIVE AllocPath(_)
AllocPath(k) ==
  IF k = 0 THEN <<1, AllocHeader, AllocCont>>
  ELSE <<1, AllocHeader, AllocBody>> \o Tail(AllocPath(k - 1))

\* The function returned after k turns of the loop, in cont, with the
\* address of the array in arr2.
AllocReturnedAfter(k) ==
  /\ stores = AllocStores(k)
  /\ visited = AllocPath(k)
  /\ cur_blk = AllocCont
  /\ slots[get_uniq(VArr2)] = AllocAddr

\* C14: the code of ArrayAlloc{len, elem} with len = n >= 0 runs the body
\* of its loop exactly n times, storing elem at a, a + 8, .., a + 8(n - 1)
\* and nowhere else, then reaches cont; the value of the expression is a.
C14_AllocLoopRunsLenTimes ==
  (AllocRun /\ run_pc = "returned" /\ Signed(AllocLen) >= 0)
    => AllocReturnedAfter(AllocLen)

\* The turns the loop takes: the size len * 8 is computed modulo the word,
\* and the loop leaves when idx is equal to the array plus that size.
AllocTurns == ((WORD_SIZE * AllocLen) % WordMod) \div WORD_SIZE

\* What the loop does for any len: at any moment the stores done are the
\* first ones of AllocTurns turns, and the function returns after exactly
\* AllocTurns turns (len turns when len * 8 fits the word).
AllocLoopRunsTurns ==
  AllocRun =>
    /\ Len(stores) <= AllocTurns
    /\ stores = SubSeq(AllocStores(AllocTurns), 1, Len(stores))
    /\ run_pc = "returned" => AllocReturnedAfter(AllocTurns)
    /\ WORD_SIZE * AllocLen < WordMod => AllocTurns = AllocLen

\* A run that returned after the most turns the word allows.
AllocLoopWitness ==
  /\ AllocRun
  /\ run_pc = "returned"
  /\ AllocLen > 1
  /\ AllocLen = AllocTurns
  /\ WORD_SIZE * (AllocLen + 1) >= WordMod

\* The runs of FunBranch, on Word operands (n, m) or Float operands
\* (x, y).
WordBranchRun == run_in.kind = "word"

FloatBranchRun == run_in.kind = "float"

\* The target blocks of then_label (LabelB) and else_label (LabelC) in the
\* code of FunBranch.
ThenBlock == label_to_block(FunBranch(VN, VM, "Equal").blocks)[LabelB]

ElseBlock == label_to_block(FunBranch(VN, VM, "Equal").blocks)[LabelC]

\* The instructions of the entry block with one of the opcodes.
EntryOps(ops) == {k \in 1 .. Len(InsOf(code, 1)) : InsOf(code, 1)[k].ins.op \in ops}

LogEvents(ev) == {i \in 1 .. Len(module.log) : module.log[i].ev = ev}

\* The log starts with the declarations: malloc, one data object per
\* built-in, one function per Fun of funs (as far as init_module_env got),
\* in this order.
DeclaredFirst(nfuns) ==
  /\ Len(module.log) >= 1 + Len(ctx_builtins) + nfuns
  /\ module.log[1] = MkModuleEvent("declare_function", "malloc", 0, "Import",
                                   MkSig(<<"I64">>, <<"I64">>), <<>>)
  /\ \A i \in 1 .. Len(ctx_builtins) :
       module.log[1 + i] = MkModuleEvent("declare_data", CtxVars[ctx_builtins[i]].name,
                                         i - 1, "Import", NoSig, <<>>)
  /\ \A i \in 1 .. nfuns :
       module.log[1 + Len(ctx_builtins) + i] =
         MkModuleEvent("declare_function", CtxVars[funs[i].name].name, i, "Local",
                       fun_signature(funs[i]), <<>>)

\* The position of the log where the definitions start.
FirstDefinition == 1 + Len(ctx_builtins) + Len(funs)

\* The first k functions of funs are defined, in the order of funs, right
\* after the declarations.
DefinedInOrder(k) ==
  /\ Len(module.log) >= FirstDefinition + k
  /\ \A i \in 1 .. k :
       /\ module.log[FirstDefinition + i].ev = "define_function"
       /\ module.log[FirstDefinition + i].id = i

\* The main stub is declared and defined after the last definition of a
\* user function: exported, () -> i32, a call of the user main, the
\* constant 0 of type i32, its return.
StubAfterFuns ==
  /\ Len(module.log) >= FirstDefinition + Len(funs) + 2
  /\ module.log[FirstDefinition + Len(funs) + 1] =
       MkModuleEvent("declare_function", "main", 1 + Len(funs), "Export",
                     MkSig(<<>>, <<"I32">>), <<>>)
  /\ module.log[FirstDefinition + Len(funs) + 2].ev = "define_function"
  /\ module.log[FirstDefinition + Len(funs) + 2].id = 1 + Len(funs)
  /\ LET stub == SelectSeq(module.log[FirstDefinition + Len(funs) + 2].code,
                           LAMBDA e : e.ev = "ins")
     IN /\ Len(stub) = 3
        /\ stub[1].ins.op = "call"
        /\ stub[1].ins.ref = main_fun_id
        /\ funs[main_fun_id].name = main_id
        /\ stub[2].ins.op = "iconst" /\ stub[2].ins.ty = "I32" /\ stub[2].ins.imm = 0
        /\ stub[3].ins.op = "return" /\ stub[3].ins.args = <<stub[2].ins.res>>

\* C16: malloc, every built-in and every Fun are declared before the body
\* of the first Fun is emitted; the functions are emitted one by one in
\* the order of funs; the exported main stub is declared and defined only
\* after every user function has been defined; the definitions are
\* finalized last.
C16_PhasesInOrder ==
  /\ cg_pc \in {"block", "stmts", "finish"} =>
       /\ DeclaredFirst(Len(funs))
       /\ DefinedInOrder(fun_idx - 1)
       /\ Len(module.log) = FirstDefinition + fun_idx - 1
  /\ cg_pc = "funs" =>
       /\ DeclaredFirst(Len(funs))
       /\ DefinedInOrder(fun_idx - 1)
       /\ Len(module.log) = FirstDefinition + fun_idx - 1
  /\ cg_pc = "finalize" =>
       /\ DeclaredFirst(Len(funs))
       /\ DefinedInOrder(Len(funs))
       /\ StubAfterFuns
       /\ Len(module.log) = FirstDefinition + Len(funs) + 2
  /\ cg_pc = "done" =>
       /\ DeclaredFirst(Len(funs))
       /\ DefinedInOrder(Len(funs))
       /\ StubAfterFuns
       /\ Len(module.log) = FirstDefinition + Len(funs) + 3
       /\ module.log[Len(module.log)].ev = "finalize_definitions"
       /\ LogEvents("finalize_definitions") = {Len(module.log)}
  /\ fn_st.b.trace # <<>> => DeclaredFirst(Len(funs))

\* codegen returned for two functions, main first.
C16_Witness ==
  /\ cg_pc = "done"
  /\ Len(funs) = 2
  /\ funs[1].name = main_id
  /\ Cardinality(LogEvents("define_function")) = 3

\* The functions (MainStub for the stub) whose verifier errors were
\* printed.
VerifierErrors == {stdout[i].fun : i \in {j \in 1 .. Len(stdout) : stdout[j].kind = "errors"}}

\* codegen is over: it returned or a panic unwound out of it.
CgEnded == cg_pc \in {"done", "panicked"}

\* Every function of funs and the main stub are defined in the module.
AllDefined == Cardinality(LogEvents("define_function")) = Len(funs) + 1

\* C17: when the verifier reports errors for a function, the errors are
\* printed and emission is not halted (the function, the remaining
\* functions and the main stub are all defined), and the compiler then
\* ends with a failure instead of handing back an object file.
C17_VerifierErrorsKeepEmittingThenFail ==
  (CgEnded /\ VerifierErrors # {}) => (AllDefined /\ cg_result # "bytes")

\* The statement the statement loop is at, and whether it is the one that
\* has just been emitted (or has just panicked).
StmtAt(i) == funs[fun_idx].blocks[blk_idx].stmts[i]

InStmts == cg_pc \in {"stmts", "panicked"} /\ fun_idx \in 1 .. Len(funs) /\ blk_idx >= 1

\* The statement codegen_expr was last called on: the one before stmt_idx
\* when it returned, the one at stmt_idx when it panicked.
LastStmtIdx == IF fn_st.panicked THEN stmt_idx ELSE stmt_idx - 1

HasLastStmt ==
  /\ InStmts
  /\ LastStmtIdx \in 1 .. Len(funs[fun_idx].blocks[blk_idx].stmts)
  /\ fn_st.panic_msg # "predecessor added to a sealed block"

LastExpr == StmtAt(LastStmtIdx).rhs

\* A tuple operation on a variable that is neither a Tuple nor a Fun, an
\* array operation on a variable that is not an Array.
IsTupleOp(e) == e.tag \in {"TupleGet", "TuplePut"}

IsArrayOp(e) == e.tag \in {"ArrayGet", "ArrayPut"}

IllTyped(e) ==
  \/ IsTupleOp(e) /\ var_type(e.vars[1]).tag \notin {"Tuple", "Fun"}
  \/ IsArrayOp(e) /\ var_type(e.vars[1]).tag # "Array"

\* C18 as stated: codegen_expr panics, instead of emitting code, on every
\* tuple operation (TupleGet, TuplePut) on a variable that is neither a
\* Tuple nor a Fun and on every array operation (ArrayGet, ArrayPut) on a
\* variable that is not an Array.
C18_IllTypedOperationPanics ==
  (HasLastStmt /\ IllTyped(LastExpr)) => fn_st.panicked

\* C18, as the code has it: TupleGet on a variable that is neither a Tuple
\* nor a Fun and ArrayGet on a variable that is not an Array panic before
\* any instruction is emitted for them; TuplePut and ArrayPut look at no
\* type and emit their store whatever the variable is.
C18_IllTypedGetPanicsPutStores ==
  (HasLastStmt /\ IllTyped(LastExpr)) =>
    IF LastExpr.tag \in {"TupleGet", "ArrayGet"}
    THEN /\ fn_st.panicked
         /\ cg_pc = "panicked"
         /\ fn_st.panic_msg = (IF LastExpr.tag = "TupleGet"
                               THEN "Non-tuple in tuple position"
                               ELSE "Non-array in array location")
         /\ \A i \in 1 .. Len(FnTrace) : FnTrace[i].ins.op \notin {"load", "load_complex"}
    ELSE /\ ~fn_st.panicked
         /\ \E i \in 1 .. Len(FnTrace) :
              FnTrace[i].ins.op = (IF LastExpr.tag = "TuplePut" THEN "store"
                                   ELSE "store_complex")

\* An ArrayGet on a variable that is not an Array has panicked.
C18_Witness ==
  /\ HasLastStmt
  /\ IllTyped(LastExpr)
  /\ LastExpr.tag = "ArrayGet"
  /\ cg_pc = "panicked"

\* funs has a Fun named main_id; the Funs of that name have no argument
\* and return a Word.
HasMain == \E i \in 1 .. Len(funs) : funs[i].name = main_id

MainWellFormed ==
  \A i \in 1 .. Len(funs) :
    funs[i].name = main_id => (funs[i].args = <<>> /\ funs[i].return_type = "Word")

\* Module initialization is over.
PastInitModuleEnv == cg_pc \notin {"start", "init_env"}

\* Nothing of a function body has been emitted or defined.
NoBodyEmitted ==
  /\ fn_st = CgIdleState
  /\ LogEvents("define_function") = {}
  /\ fun_idx = 0

\* C19: codegen proceeds to function emission only when funs has a Fun
\* named main_id with no argument and return type Word; when no Fun has
\* that name, or the one that has it takes arguments or returns a Float,
\* module initialization panics before any function body is emitted.
C19_MainRequired ==
  /\ cg_pc \in {"funs", "block", "stmts", "finish", "finalize", "done"}
       => (HasMain /\ MainWellFormed)
  /\ (PastInitModuleEnv /\ ~(HasMain /\ MainWellFormed)) =>
       /\ cg_pc = "panicked"
       /\ cg_result = "panic"
       /\ NoBodyEmitted

\* Module initialization has panicked on a main that returns a Float,
\* declared before another function.
C19_Witness ==
  /\ cg_pc = "panicked"
  /\ Len(funs) = 2
  /\ funs[1].name = main_id
  /\ funs[1].return_type = "Float"
  /\ NoBodyEmitted

\* The function codegen_fun is at.
CurFun == funs[fun_idx]

InFun == cg_pc \in {"block", "stmts", "finish"}

\* The variables of an expression that the module-level Env binds to a
\* function or a data object, one per mention.
GlobalUses(e) == {i \in 1 .. Len(e.vars) : e.vars[i] \in DOMAIN global_env}

\* The mentions of such variables in the statements of a block before
\* position n.
RECURSIVE GlobalUsesBefore(_, _)
GlobalUsesBefore(stmts, n) ==
  IF n <= 1 THEN 0
  ELSE GlobalUsesBefore(stmts, n - 1) + Cardinality(GlobalUses(stmts[n - 1].rhs))

\* The func_addr and global_value instructions of the function so far.
AddrIns == {i \in 1 .. Len(FnTrace) : FnTrace[i].ins.op \in {"func_addr", "global_value"}}

\* The Env init_module_env builds for funs.
InitialEnv == init_module_env(declare_malloc(NewModule), funs, main_id).env

\* C20: Env::use_var never changes the Env.  The Env of the function being
\* emitted stays the module-level Env plus the arguments of the function:
\* a Fun or Data variable stays Fun or Data, and every mention of one emits
\* its own func_addr / global_value instruction in the block of the use;
\* the module-level Env stays what init_module_env built, whatever is
\* emitted.
C20_UseVarLeavesEnv ==
  /\ InFun =>
       /\ fn_st.env = add_args(global_env, CurFun.args, 1)
       /\ \A v \in DOMAIN global_env : fn_st.env[v] = global_env[v]
       /\ \A v \in DOMAIN fn_st.env :
            fn_st.env[v].tag = "Arg" <=> \E i \in 1 .. Len(CurFun.args) : CurFun.args[i] = v
  /\ (cg_pc = "stmts" /\ blk_idx = 1) =>
       /\ Cardinality(AddrIns) = GlobalUsesBefore(CurFun.blocks[1].stmts, stmt_idx)
       /\ \A i \in AddrIns : FnTrace[i].blk = 1
  /\ (PastInitModuleEnv /\ fun_idx >= 1) => global_env = InitialEnv

\* A statement that mentions the built-in print_int and the function g
\* has been emitted, with one address instruction for each.
C20_Witness ==
  /\ cg_pc = "stmts"
  /\ blk_idx = 1
  /\ stmt_idx = 2
  /\ Cardinality(GlobalUses(CurFun.blocks[1].stmts[1].rhs)) = 2
  /\ Cardinality(AddrIns) = 2

(***************************************************************************)
(* Helpers of C21: the sub-unifications of a unify call on two compound    *)
(* types of the same constructor and arity, in the order the call makes    *)
(* them.                                                                   *)
(***************************************************************************)
\* The component pairs: the arguments left to right, then, for Fun, the
\* return types.
UnifyComponents(d1, d2) ==
  [i \in 1 .. Len(d1.args) |-> <<d1.args[i], d2.args[i]>>]
    \o (IF d1.tag = "Fun" THEN <<<<d1.ret[1], d2.ret[1]>>>> ELSE <<>>)

\* The substitution the k-th sub-unification starts from: the one the
\* sub-unifications before it have left.
RECURSIVE SubstBefore(_, _, _)
SubstBefore(subst, pairs, k) ==
  IF k = 1 THEN subst
  ELSE unify(SubstBefore(subst, pairs, k - 1), pairs[k - 1][1], pairs[k - 1][2]).subst

\* The k-th sub-unification, made on what the earlier ones left.
SubUnify(subst, pairs, k) == unify(SubstBefore(subst, pairs, k), pairs[k][1], pairs[k][2])

(***************************************************************************)
(* C21: a unify call whose dereferenced operands are two compound types of *)
(* the same constructor fails with the error of its first failing          *)
(* sub-unification, makes no later sub-unification (the substitution is    *)
(* what that sub-unification left) and does not roll back (every binding   *)
(* the earlier sub-unifications inserted is still there); when the         *)
(* operands are two Fun or two Tuple types of different arities the call   *)
(* fails with UnifyError on them and leaves the substitution exactly as it *)
(* was before the call.                                                    *)
(***************************************************************************)
C21_FirstFailureKeptNoRollback ==
  [][call'.active =>
       LET d1 == deref_ty(subst_env, call'.ty1)
           d2 == deref_ty(subst_env, call'.ty2)
           pairs == UnifyComponents(d1, d2)
       IN
       (IsCompound(d1) /\ d1.tag = d2.tag) =>
         IF Len(d1.args) # Len(d2.args)
         THEN call'.err = UnifyError(d1, d2) /\ subst_env' = subst_env
         ELSE call'.err # NoErr =>
                \E k \in 1 .. Len(pairs) :
                  /\ \A j \in 1 .. k - 1 : SubUnify(subst_env, pairs, j).err = NoErr
                  /\ SubUnify(subst_env, pairs, k).err # NoErr
                  /\ call'.err = SubUnify(subst_env, pairs, k).err
                  /\ subst_env' = SubUnify(subst_env, pairs, k).subst
                  /\ \A v \in DOMAIN SubstBefore(subst_env, pairs, k) :
                       /\ v \in DOMAIN subst_env'
                       /\ subst_env'[v] = SubstBefore(subst_env, pairs, k)[v]]_vars

\* unify on two pairs has failed on the second components, an Int against
\* what dereferences to an Array, and the variable that is the first
\* component of one operand is bound to the Int that is the first component
\* of the other.
C21_Witness ==
  /\ call.active
  /\ call.ty1.tag = "Tuple"
  /\ call.ty2.tag = "Tuple"
  /\ Len(call.ty1.args) = 2
  /\ Len(call.ty2.args) = 2
  /\ call.ty1.args[1].tag = "Var"
  /\ call.ty2.args[1] = TInt
  /\ call.ty1.args[1].var \in DOMAIN subst_env
  /\ subst_env[call.ty1.args[1].var] = TInt
  /\ call.ty1.args[2] = TInt
  /\ deref_ty(subst_env, call.ty2.args[2]).tag = "Array"
  /\ call.err = UnifyError(TInt, deref_ty(subst_env, call.ty2.args[2]))

(***************************************************************************)
(* Helpers of C22.                                                         *)
(***************************************************************************)
Literals == {EUnit, EBool, EInt, EFloat}

\* The type LetRec gives its function when NEXT_TYVAR is 0 at the call: one
\* fresh variable per argument, then one for the result.
LetRecFunTy(e) == TFun([i \in 1 .. Len(e.bndrs) |-> TVar(i - 1)], TVar(Len(e.bndrs)))

\* type_check_pgm is past its type_check call on a LetRec.
CheckedLetRec == pc # "start" /\ pgm.tag = "LetRec"

(***************************************************************************)
(* C22: in LetRec{bndr, args, rhs, body} the function binder is in scope   *)
(* with type Fun{args: arg_tys, ret: ret_ty} while rhs is checked and      *)
(* while body is checked, and the argument binders are in scope while rhs  *)
(* is checked only.  A reference to the function's name resolves to the    *)
(* function binder, with that Fun type, in body always and in rhs unless   *)
(* an argument has that name; a reference in rhs to an argument's name     *)
(* resolves to the argument binder, with its type variable, also when the  *)
(* name is the function's; a reference in body to the name of an argument  *)
(* that is neither the function's name nor a built-in is never accepted,   *)
(* and yields UnboundVar of that name when rhs checks (rhs a literal).     *)
(***************************************************************************)
C22_LetRecScoping ==
  CheckedLetRec =>
    LET n == Len(pgm.bndrs)
        rhs == pgm.args[1]
        body == pgm.args[2]
        fname == pgm.bndr.name
    IN
    /\ (rhs = EVar(fname) /\ fname \notin ArgNamesOf(pgm)) =>
         /\ pc = "done"
         /\ refs = <<pgm.bndr>>
         /\ result = InfiniteType(TVar(n), LetRecFunTy(pgm))
    /\ \A i \in 1 .. n :
         rhs = EVar(pgm.bndrs[i].name) =>
           /\ refs # <<>>
           /\ refs[1] = pgm.bndrs[i]
           /\ n \in DOMAIN subst_env
           /\ subst_env[n] = TVar(i - 1)
    /\ (rhs \in Literals /\ body = EVar(fname)) =>
         /\ refs = <<pgm.bndr>>
         /\ top_ty = LetRecFunTy(pgm)
    /\ \A i \in 1 .. n :
         (body = EVar(pgm.bndrs[i].name)
            /\ pgm.bndrs[i].name \notin BuiltinNames \cup {fname}) =>
           /\ pc = "done"
           /\ result.kind # "Ok"
           /\ rhs \in Literals => result = UnboundVar(pgm.bndrs[i].name)
    /\ \A i \in 1 .. Len(refs) : refs[i].name = fname /\ refs[i] # pgm.bndr =>
         /\ refs[i] \in {pgm.bndrs[j] : j \in 1 .. n}
         /\ fname \in FreeIdents(rhs, {})

\* `let rec f a f = f in f`: the reference in rhs was resolved to the
\* argument named f, the reference in body to the function.
C22_Witness ==
  /\ CheckedLetRec
  /\ Len(pgm.bndrs) = 2
  /\ pgm.bndrs[2].name = pgm.bndr.name
  /\ pgm.args[1] = EVar(pgm.bndr.name)
  /\ pgm.args[2] = EVar(pgm.bndr.name)
  /\ refs = <<pgm.bndrs[2], pgm.bndr>>
  /\ top_ty = LetRecFunTy(pgm)

(***************************************************************************)
(* Helpers of C23.                                                         *)
(***************************************************************************)
\* ty with the substitution fully applied: every type variable that has a
\* binding replaced, at any depth, by its binding, itself fully applied; a
\* variable without a binding stays.  On the types norm_ty returns for,
\* this is what norm_ty returns.
RECURSIVE ApplySubst(_, _)
ApplySubst(subst, ty) ==
  IF ty.tag = "Var"
  THEN IF ty.var \in DOMAIN subst THEN ApplySubst(subst, subst[ty.var]) ELSE ty
  ELSE [ty EXCEPT !.args = [i \in 1 .. Len(ty.args) |-> ApplySubst(subst, ty.args[i])],
                  !.ret = [i \in 1 .. Len(ty.ret) |-> ApplySubst(subst, ty.ret[i])]]

\* a and b are one type under subst; and where a norm_ty call on one of
\* them returns, the call on the other returns the same type, which is the
\* fully applied one.
SameApplied(subst, a, b) ==
  /\ ApplySubst(subst, a) = ApplySubst(subst, b)
  /\ (Returned(norm_ty(subst, a)) \/ Returned(norm_ty(subst, b))) =>
       /\ norm_ty(subst, a) = norm_ty(subst, b)
       /\ norm_ty(subst, a) = ApplySubst(subst, a)

\* Each type of the universe fully applied under s1, paired with the same
\* type fully applied under s2.
Images(s1, s2) == {<<ApplySubst(s1, t), ApplySubst(s2, t)>> : t \in Types}

(***************************************************************************)
(* C23: after a successful unify(a, b), a and b with the substitution      *)
(* fully applied (every bound type variable replaced at any depth, as      *)
(* norm_ty does) are identical types, for every pair of types of the       *)
(* universe; and two types that are identical under the substitution       *)
(* before a unify call are identical under the substitution after it, so   *)
(* the pair of a successful call stays identical through every later call. *)
(***************************************************************************)
C23_UnifiedStayIdentical ==
  /\ [](CallOk => SameApplied(subst_env, call.ty1, call.ty2))
  /\ [][subst_env' # subst_env =>
          \A p \in Images(subst_env, subst_env'), q \in Images(subst_env, subst_env') :
            p[1] = q[1] => p[2] = q[2]]_vars

\* unify on two tuple types has succeeded by binding a variable of the one
\* and another variable of the other: their shallow dereferences differ
\* and their full applications are one ground type.
C23_Witness ==
  /\ CallOk
  /\ call.ty1.tag = "Tuple"
  /\ call.ty2.tag = "Tuple"
  /\ deref_ty(subst_env, call.ty1) # deref_ty(subst_env, call.ty2)
  /\ TyVarsOf(call.ty1) # {}
  /\ TyVarsOf(call.ty2) # {}
  /\ TyVarsOf(call.ty1) # TyVarsOf(call.ty2)
  /\ Ground(ApplySubst(subst_env, call.ty1))
  /\ norm_ty(subst_env, call.ty1) = norm_ty(subst_env, call.ty2)
  /\ Returned(norm_ty(subst_env, call.ty1))

(***************************************************************************)
(* Helpers of C24.                                                         *)
(***************************************************************************)
\* The display names of the binders e introduces.
BinderNamesOf(e) ==
  IF e.tag = "Let" THEN {e.bndr.name}
  ELSE IF e.tag = "LetTuple" THEN {e.bndrs[i].name : i \in 1 .. Len(e.bndrs)}
  ELSE IF e.tag = "LetRec" THEN {e.bndr.name} \cup {e.bndrs[i].name : i \in 1 .. Len(e.bndrs)}
  ELSE {}

\* A call of type_check made inside the body of an enclosing `let x`: a
\* second frame, binding x, is on the stack.
TcStartInLet ==
  [TcStart(0) EXCEPT !.scope = scope_add(new_scope(@), MkVar("x", 20), TInt)]

\* The expression and its direct sub-expressions.
WithSubExprs(e) == {e} \cup {e.args[i] : i \in 1 .. Len(e.args)}

\* The scope stack is what it was: as many frames, the same bindings.
SameScope(sc1, sc2) ==
  /\ Len(sc1) = Len(sc2)
  /\ \A i \in 1 .. Len(sc1) : sc1[i] = sc2[i]

\* type_check, called in state st, has returned r: an Err, or Ok with the
\* stack as it was.
Balanced(st, r) == TcFailed(r) \/ SameScope(r.scope, st.scope)

(***************************************************************************)
(* C24: the scope stack is balanced.  Whenever type_check returns Ok for   *)
(* an expression (the whole program, or one of its sub-expressions; called *)
(* on the initial stack, or on a stack with a further frame), the stack    *)
(* has as many frames, with the same bindings, as when the call started:   *)
(* every frame pushed for Let, LetRec and LetTuple has been popped.  So    *)
(* after type_check_pgm's call has returned Ok the stack is the initial    *)
(* one, and a reference to a binder of the expression made after the       *)
(* expression, outside it, is an UnboundVar.                               *)
(***************************************************************************)
C24_ScopeBalanced ==
  /\ (pc \in {"checked", "norm", "aborted"} \/ ReturnedOk) =>
       SameScope(scope, Locals_new(global_scope(mk_type_env)))
  /\ pc = "start" =>
       \A st \in {TcStart(0), TcStartInLet}, e \in WithSubExprs(pgm) :
         Balanced(st, type_check(st, e))
  /\ pc = "checked" =>
       \A name \in BinderNamesOf(pgm) \ BuiltinNames :
         type_check(TcStart(0), ETuple(<<pgm, EVar(name)>>)).err = UnboundVar(name)

\* type_check has returned Ok for a LetRec with arguments whose rhs and
\* body each reference a binder: both frames were pushed, used and popped,
\* and the stack is the initial one of one frame.
C24_Witness ==
  /\ pc = "checked"
  /\ pgm.tag = "LetRec"
  /\ Len(pgm.bndrs) >= 1
  /\ Len(refs) >= 2
  /\ refs[1] \in {pgm.bndrs[i] : i \in 1 .. Len(pgm.bndrs)}
  /\ refs[Len(refs)] = pgm.bndr
  /\ Len(scope) = 1
  /\ scope = Locals_new(global_scope(mk_type_env))

====
